---- MODULE Spec2Model ----
(***************************************************************************)
(* A model of one station of the ICY metadata proxy: the source reader,    *)
(* the metadata poller, the fan-out dispatcher and the per-listener stream *)
(* handler, as written in internal/domain/station/station.go,              *)
(* internal/infrastructure/http/handlers.go, the ring buffer and the ICY   *)
(* block encoder; of the manager that creates the stations of a           *)
(* configuration; and of the shutdown of the process in cmd/icyproxy.      *)
(*                                                                         *)
(* Bytes of the upstream audio stream are numbered by their position, so   *)
(* byte p of the stream has the value p; a chunk is a sequence of bytes.   *)
(* Texts are sequences of byte values.                                     *)
(***************************************************************************)
EXTENDS Integers, Sequences, FiniteSets, TLC

(***************************************************************************)
(* Bounds of the model.                                                    *)
(***************************************************************************)
\* bytes the upstream serves before it ends
MaxSrcBytes == 4
\* largest number of bytes one stream.Read returns (len(buf) scaled down)
MaxRead == 2
\* the largest icy.metaint a station is configured with
MaxMetaInt == 2
\* capacity of a client's mailbox channel (64 in Subscribe, scaled down)
MailboxCap == 1
\* capacity of the chunk bus (ChunkBusCap, 32 in NewFromConfig, scaled down)
ChunkBusCap == 1
\* buffering.ring_bytes of the station (config value)
RingSize == 4
\* ticks of the poll ticker the model lets pass
MaxTime == 2
\* the stale TTL the documentation speaks of, in poll intervals
StaleTTL == 1
\* bytes the upstream serves in the scenario of the listener that never reads
SlowSrcBytes == 2
\* bytes the upstream serves in the scenario of the two listeners whose handlers run to their end
CounterSrcBytes == 3
\* calls of Start after the first whose goroutines run at the same time
MaxRestarts == 1
\* chunks the upstream of each station serves, in the model of several stations
MaxChunks == 1
\* the largest capacity of a ring buffer on its own
MaxRingSize == 8
\* the bytes written to a ring buffer on its own, in one Write or in several
MaxRingBytes == 11
\* the texts given to the encoder are of at most MaxTextLen bytes, or within
\* MaxTextLen bytes of the largest payload
MaxTextLen == 48
\* the request paths are a prefix of at most MaxPrefixLen bytes followed by a tail
MaxPrefixLen == 3

Clients == {"c1", "c2"}
\* the three goroutines a call of Start launches
Goroutines == {"reader", "poller", "dispatcher"}
\* goroutines that call Station.Unsubscribe themselves
Callers == {"u1", "u2"}

\* a nil pointer; a pointer to v is <<v>>
NULL == <<>>

Ptr(v) == <<v>>

Min(a, b) == IF a < b THEN a ELSE b

\* "StreamTitle='';" (handlers.go:105), as bytes
DefaultMeta == <<83, 116, 114, 101, 97, 109, 84, 105, 116, 108, 101, 61, 39, 39, 59>>
\* "StreamTitle='A';", a title of exactly 16 bytes
TitleA == <<83, 116, 114, 101, 97, 109, 84, 105, 116, 108, 101, 61, 39, 65, 39, 59>>
\* the strings a metadata fetch can produce (the empty string among them)
Texts == {<<>>, TitleA}

(***************************************************************************)
(* icy.BuildBlock                                                          *)
(***************************************************************************)
Zeros(k) == [i \in 1..k |-> 0]

\* the most payload a block carries: 255 units of 16 bytes
MaxPayload == 255 * 16

\* an encoder that does not cut the text
BuildBlockUncut(text) ==
    IF text = <<>> THEN <<0>>
    ELSE LET blocks0 == (Len(text) + 15) \div 16
             blocks  == IF blocks0 > 255 THEN 255 ELSE blocks0
             pad     == blocks * 16 - Len(text)
         IN  <<blocks % 256>> \o text \o (IF pad > 0 THEN Zeros(pad) ELSE <<>>)

BuildBlock(text) ==
    IF text = <<>> THEN <<0>>
    ELSE LET payload == IF Len(text) > 255 * 16 THEN SubSeq(text, 1, 255 * 16) ELSE text
             blocks0 == (Len(payload) + 15) \div 16
             blocks  == IF blocks0 > 255 THEN 255 ELSE blocks0
             pad     == blocks * 16 - Len(payload)
         IN  <<blocks % 256>> \o payload \o (IF pad > 0 THEN Zeros(pad) ELSE <<>>)

(***************************************************************************)
(* ring.Buffer: buf is indexed from 0, w is the position of the oldest     *)
(* byte held, n the number of bytes held.                                  *)
(***************************************************************************)
RingNew(size) == [buf |-> [i \in 0..(size - 1) |-> 0], w |-> 0, n |-> 0]

RingCap(b) == Cardinality(DOMAIN b.buf)

\* copy(b.buf[end:end+right], p[:right]); copy(b.buf[0:chunk-right], p[right:chunk])
RingCopy(buf, end, right, chunk, p) ==
    [i \in DOMAIN buf |->
        IF i >= end /\ i < end + right THEN p[i - end + 1]
        ELSE IF right < chunk /\ i < chunk - right THEN p[right + i + 1]
        ELSE buf[i]]

\* a Write that stores every byte it is given and drops none
RingWriteNoDrop(b, p) == [buf |-> b.buf, w |-> b.w, n |-> b.n + Len(p)]

RECURSIVE RingWrite(_, _)
RingWrite(b, p) ==
    IF Len(p) = 0 THEN b
    ELSE LET size   == RingCap(b)
             space0 == size - b.n
             drop   == size \div 4
             w1     == IF space0 = 0 THEN (b.w + drop) % size ELSE b.w
             n0     == IF space0 = 0 THEN b.n - drop ELSE b.n
             n1     == IF n0 < 0 THEN 0 ELSE n0
             space  == size - n1
             chunk  == Min(Len(p), space)
             end    == (w1 + n1) % size
             right  == Min(size - end, chunk)
         IN  RingWrite([buf |-> RingCopy(b.buf, end, right, chunk, p),
                        w   |-> w1,
                        n   |-> n1 + chunk],
                       SubSeq(p, chunk + 1, Len(p)))

\* a Snapshot that copies from the start of the storage
SnapshotFromStart(b) == [i \in 1..b.n |-> b.buf[i - 1]]

Snapshot(b) ==
    LET size == RingCap(b)
        head == b.w
        tail == (b.w + b.n) % size
    IN  IF b.n = 0 THEN <<>>
        ELSE IF head < tail THEN [i \in 1..b.n |-> b.buf[head + i - 1]]
        ELSE [i \in 1..b.n |->
                 IF i <= size - head THEN b.buf[head + i - 1]
                 ELSE b.buf[i - (size - head) - 1]]

(***************************************************************************)
(* The state of the station and of its listeners' stream handlers.         *)
(***************************************************************************)
VARIABLES
    relaunched,      \* Start has been called again after its goroutines returned
    writeP,          \* p of the Buffer.Write in progress (NULL when there is none)
    writePc,         \* where the Buffer.Write in progress is in its loop
    reqPath,         \* r.URL.Path of the request the mux was handed, per connection
    fetched,         \* the last call of HTTPProvider.Fetch: its configuration, document and result
    stations,        \* m.stations: for each identifier, the objects of its station
    heap,            \* the objects NewFromConfig has allocated, by reference
    mainPc,          \* position of run() in main.go
    exitCode,        \* the exit code of the process (NULL while it runs)
    stMetaInt,       \* s.metaInt, the station's icy.metaint
    extraGo,         \* goroutines launched by Start calls after the first, still running
    unsubPc,         \* position and argument of each direct caller of Unsubscribe
    started,         \* Start has launched the three goroutines
    cancelled,       \* s.ctx is done (Shutdown called s.cancel)
    srcPc,           \* position of runSourceReader
    srcPos,          \* bytes the upstream has served so far
    readLog,         \* the chunks given to s.buffer.Write, in order: those
                     \* stream.Read has returned
    pending,         \* the chunk runSourceReader is sending to the bus
    pendingErr,      \* the err stream.Read returned with that chunk
    ring,            \* s.buffer
    sourceHealthy,   \* s.sourceHealthy
    chunkBus,        \* s.chunkBus
    pollPc,          \* position of runMetadataPoller
    currentMeta,     \* s.currentMeta (NULL for the nil pointer)
    lastMetaAt,      \* s.lastMetaAt (NULL for the nil pointer)
    published,       \* the strings passed to UpdateMetadata, in the order of
                     \* their stores
    now,             \* the clock, in poll intervals
    tickPending,     \* a tick waits in ticker.C
    fanPc,           \* position of runFanOut
    clients,         \* s.clients
    sessPc,          \* position of each StreamHandler.ServeHTTP
    reqIcy,          \* the request's Icy-MetaData header ("" when absent)
    status,          \* the status code of the response (0: none written)
    wantsMetadata,   \* the handler's wantsMetadata
    headers,         \* the response headers sent
    metaInt,         \* the handler's metaInt
    bytesUntilMeta,  \* the handler's bytesUntilMeta
    mailbox,         \* the contents of client.ch
    chState,         \* client.ch: "nil", "open" or "closed"
    cur,             \* the handler's chunk (what is left of it)
    body,            \* the response body: one entry per w.Write
    taken            \* the bytes of the chunks the handler received

vars == <<relaunched, writeP, writePc, reqPath, fetched, stations, heap, mainPc, exitCode, stMetaInt, extraGo, unsubPc, started, cancelled, srcPc, srcPos, readLog,
          pending, pendingErr, ring, sourceHealthy, chunkBus, pollPc, currentMeta,
          lastMetaAt, published, now, tickPending, fanPc, clients, sessPc, reqIcy, status,
          wantsMetadata, headers, metaInt, bytesUntilMeta, mailbox, chState, cur,
          body, taken>>

callVars == <<relaunched, writeP, writePc, reqPath, fetched>>
mgrVars  == <<stations, heap>>
procVars == <<mainPc, exitCode>>
srcVars  == <<srcPc, srcPos, readLog, pending, pendingErr, ring, sourceHealthy>>
pollVars == <<pollPc, currentMeta, lastMetaAt, published, tickPending>>
sessVars == <<clients, sessPc, reqIcy, status, wantsMetadata, headers, metaInt,
              bytesUntilMeta, mailbox, chState, cur, body, taken>>

\* station.New and the state of a handler that has not been called
Init ==
    /\ relaunched = FALSE
    /\ writeP = NULL
    /\ writePc = "idle"
    /\ reqPath = [c \in Clients |-> NULL]
    /\ fetched = NULL
    /\ stations = <<>>
    /\ heap = <<>>
    /\ mainPc = "run"
    /\ exitCode = NULL
    /\ stMetaInt \in 1..MaxMetaInt
    /\ extraGo = [g \in Goroutines |-> 0]
    /\ unsubPc = [u \in Callers |-> [pc |-> "idle", c |-> "c1"]]
    /\ started = FALSE
    /\ cancelled = FALSE
    /\ srcPc = "init"
    /\ srcPos = 0
    /\ readLog = <<>>
    /\ pending = <<>>
    /\ pendingErr = "nil"
    /\ ring = RingNew(RingSize)
    /\ sourceHealthy = FALSE
    /\ chunkBus = <<>>
    /\ pollPc = "init"
    /\ currentMeta = NULL
    /\ lastMetaAt = NULL
    /\ published = <<>>
    /\ now = 0
    /\ tickPending = FALSE
    /\ fanPc = "init"
    /\ clients = {}
    /\ sessPc = [c \in Clients |-> "idle"]
    /\ reqIcy = [c \in Clients |-> ""]
    /\ status = [c \in Clients |-> 0]
    /\ wantsMetadata = [c \in Clients |-> FALSE]
    /\ headers = [c \in Clients |-> {}]
    /\ metaInt = [c \in Clients |-> 0]
    /\ bytesUntilMeta = [c \in Clients |-> 0]
    /\ mailbox = [c \in Clients |-> <<>>]
    /\ chState = [c \in Clients |-> "nil"]
    /\ cur = [c \in Clients |-> <<>>]
    /\ body = [c \in Clients |-> <<>>]
    /\ taken = [c \in Clients |-> <<>>]

(***************************************************************************)
(* Station accessors.                                                      *)
(***************************************************************************)
\* if ptr := s.currentMeta.Load(); ptr != nil { return *ptr }; return ""
CurrentMetadata == IF currentMeta = NULL THEN <<>> ELSE currentMeta[1]

\* the time of the last update; NULL when there has been none
LastMetadataUpdate == lastMetaAt

SourceHealthy == sourceHealthy

ClientCount == Cardinality(clients)

MetaInt == stMetaInt

(***************************************************************************)
(* Start and Shutdown.                                                     *)
(***************************************************************************)
\* go s.runSourceReader(); go s.runMetadataPoller(); go s.runFanOut(), at every
\* call.  The goroutines of the first call are the ones whose steps are the
\* actions below; those of later calls are counted in extraGo.
Start ==
    /\ \A g \in Goroutines : extraGo[g] < MaxRestarts
    /\ started' = TRUE
    /\ IF ~started
       THEN /\ srcPc' = "connect"
            /\ pollPc' = "first"
            /\ fanPc' = "run"
            /\ UNCHANGED extraGo
       ELSE /\ extraGo' = [g \in Goroutines |-> extraGo[g] + 1]
            /\ UNCHANGED <<srcPc, pollPc, fanPc>>
    /\ UNCHANGED callVars
    /\ UNCHANGED mgrVars
    /\ UNCHANGED procVars
    /\ UNCHANGED <<stMetaInt, unsubPc, cancelled, srcPos, readLog, pending,
                   pendingErr, ring, sourceHealthy, chunkBus, currentMeta,
                   lastMetaAt, published, now, tickPending>>
    /\ UNCHANGED sessVars

\* Start called once more when the goroutines of the earlier call have all
\* returned: the three goroutines it launches take their places, the poller
\* with a new ticker
StartAgain ==
    /\ started
    /\ srcPc = "done" /\ pollPc = "done" /\ fanPc = "done"
    /\ ~relaunched
    /\ relaunched' = TRUE
    /\ srcPc' = "connect"
    /\ pollPc' = "first"
    /\ fanPc' = "run"
    /\ tickPending' = FALSE
    /\ UNCHANGED <<writeP, writePc, reqPath, fetched, stations, heap, mainPc, exitCode>>
    /\ UNCHANGED <<stMetaInt, extraGo, unsubPc, started, cancelled, srcPos, readLog, pending,
                   pendingErr, ring, sourceHealthy, chunkBus, currentMeta,
                   lastMetaAt, published, now>>
    /\ UNCHANGED sessVars

\* the call of Start the manager makes (Manager.Start, once per station)
StartOnce == ~started /\ Start

\* a goroutine of a later Start call returns: a source reader when its Connect
\* or its Read fails or s.ctx is done, a poller or a dispatcher when s.ctx is
\* done
ExtraReturns(g) ==
    /\ extraGo[g] > 0
    /\ g # "reader" => cancelled
    /\ extraGo' = [extraGo EXCEPT ![g] = extraGo[g] - 1]
    /\ UNCHANGED callVars
    /\ UNCHANGED mgrVars
    /\ UNCHANGED procVars
    /\ UNCHANGED <<stMetaInt, unsubPc, started, cancelled, chunkBus, now, fanPc>>
    /\ UNCHANGED srcVars
    /\ UNCHANGED pollVars
    /\ UNCHANGED sessVars

Shutdown ==
    /\ ~cancelled
    /\ cancelled' = TRUE
    /\ UNCHANGED callVars
    /\ UNCHANGED mgrVars
    /\ UNCHANGED procVars
    /\ UNCHANGED <<stMetaInt, extraGo, unsubPc, started, chunkBus, now, fanPc>>
    /\ UNCHANGED srcVars
    /\ UNCHANGED pollVars
    /\ UNCHANGED sessVars

(***************************************************************************)
(* runSourceReader.  source.Connect fails on a transport error, on a       *)
(* status other than 200, and when s.ctx is already done.                  *)
(***************************************************************************)
ReadErrs == {"nil", "eof", "err"}

\* bytes srcPos+1 .. srcPos+n of the upstream stream
SourceBytes(n) == [i \in 1..n |-> srcPos + i]

SourceConnectOK ==
    /\ srcPc = "connect"
    /\ ~cancelled
    /\ sourceHealthy' = TRUE
    /\ srcPc' = "loop"
    /\ UNCHANGED callVars
    /\ UNCHANGED mgrVars
    /\ UNCHANGED procVars
    /\ UNCHANGED <<stMetaInt, extraGo, unsubPc, started, cancelled, srcPos, readLog, pending,
                   pendingErr, ring,
                   chunkBus, now, fanPc>>
    /\ UNCHANGED pollVars
    /\ UNCHANGED sessVars

\* Connect returned an error: SetSourceHealthy(false); return
SourceConnectFail ==
    /\ srcPc = "connect"
    /\ sourceHealthy' = FALSE
    /\ srcPc' = "done"
    /\ UNCHANGED callVars
    /\ UNCHANGED mgrVars
    /\ UNCHANGED procVars
    /\ UNCHANGED <<stMetaInt, extraGo, unsubPc, started, cancelled, srcPos, readLog, pending,
                   pendingErr, ring,
                   chunkBus, now, fanPc>>
    /\ UNCHANGED pollVars
    /\ UNCHANGED sessVars

\* what the reader does with the err of a Read once the chunk is dealt with
AfterRead(e) ==
    /\ srcPc' = IF e = "nil" THEN "loop" ELSE "done"
    /\ sourceHealthy' = IF e = "err" THEN FALSE ELSE sourceHealthy

\* stream.Read returned n > 0 bytes (and err e): copy them, write them to the
\* ring buffer, and go on to offer the chunk to the bus
SourceRead(n, e) ==
    /\ srcPc = "loop"
    /\ ~cancelled
    /\ n > 0
    /\ srcPos + n <= MaxSrcBytes
    /\ ring' = RingWrite(ring, SourceBytes(n))
    /\ pending' = SourceBytes(n)
    /\ readLog' = Append(readLog, SourceBytes(n))
    /\ pendingErr' = e
    /\ srcPos' = srcPos + n
    /\ srcPc' = "send"
    /\ UNCHANGED callVars
    /\ UNCHANGED mgrVars
    /\ UNCHANGED procVars
    /\ UNCHANGED <<stMetaInt, extraGo, unsubPc, started, cancelled, sourceHealthy, chunkBus, now, fanPc>>
    /\ UNCHANGED pollVars
    /\ UNCHANGED sessVars

\* a reader that empties the listeners' channels when the upstream ends
SourceReadEndDropsQueued(e) ==
    /\ srcPc = "loop"
    /\ ~cancelled
    /\ e # "nil"
    /\ srcPc' = "done"
    /\ sourceHealthy' = IF e = "err" THEN FALSE ELSE sourceHealthy
    /\ mailbox' = [c \in Clients |-> <<>>]
    /\ UNCHANGED callVars
    /\ UNCHANGED mgrVars
    /\ UNCHANGED procVars
    /\ UNCHANGED <<stMetaInt, extraGo, unsubPc, started, cancelled, srcPos, readLog, pending,
                   pendingErr, ring,
                   chunkBus, now, fanPc>>
    /\ UNCHANGED <<clients, sessPc, reqIcy, status, wantsMetadata, headers,
                   metaInt,
                   bytesUntilMeta, chState, cur, body, taken>>
    /\ UNCHANGED pollVars

\* stream.Read returned no bytes and an error (io.EOF or another)
SourceReadEnd(e) ==
    /\ srcPc = "loop"
    /\ ~cancelled
    /\ e # "nil"
    /\ AfterRead(e)
    /\ UNCHANGED callVars
    /\ UNCHANGED mgrVars
    /\ UNCHANGED procVars
    /\ UNCHANGED <<stMetaInt, extraGo, unsubPc, started, cancelled, srcPos, readLog, pending,
                   pendingErr, ring,
                   chunkBus, now, fanPc>>
    /\ UNCHANGED pollVars
    /\ UNCHANGED sessVars

\* case s.chunkBus <- chunk: the send waits until the bus has room
SourceSend ==
    /\ srcPc = "send"
    /\ Len(chunkBus) < ChunkBusCap
    /\ chunkBus' = Append(chunkBus, pending)
    /\ pending' = <<>>
    /\ pendingErr' = "nil"
    /\ AfterRead(pendingErr)
    /\ UNCHANGED callVars
    /\ UNCHANGED mgrVars
    /\ UNCHANGED procVars
    /\ UNCHANGED <<stMetaInt, extraGo, unsubPc, started, cancelled, srcPos, readLog, ring,
                   now, fanPc>>
    /\ UNCHANGED pollVars
    /\ UNCHANGED sessVars

\* a reader that looks at s.ctx only at the top of its loop
SourceCancelledAtLoop(viaRead) ==
    /\ srcPc = "loop"
    /\ cancelled
    /\ srcPc' = "done"
    /\ sourceHealthy' = IF viaRead THEN FALSE ELSE sourceHealthy
    /\ UNCHANGED <<pending, pendingErr>>
    /\ UNCHANGED callVars
    /\ UNCHANGED mgrVars
    /\ UNCHANGED procVars
    /\ UNCHANGED <<stMetaInt, extraGo, unsubPc, started, cancelled, srcPos, readLog, ring,
                   chunkBus, now, fanPc>>
    /\ UNCHANGED pollVars
    /\ UNCHANGED sessVars

\* s.ctx is done: the reader returns, from the select at the top of the loop
\* or from the select around the send (viaRead = FALSE), or because the Read
\* in flight fails with the context's error (viaRead = TRUE)
SourceCancelled(viaRead) ==
    /\ srcPc \in {"loop", "send"}
    /\ cancelled
    /\ viaRead => srcPc = "loop"
    /\ srcPc' = "done"
    /\ sourceHealthy' = IF viaRead THEN FALSE ELSE sourceHealthy
    /\ pending' = <<>>
    /\ pendingErr' = "nil"
    /\ UNCHANGED callVars
    /\ UNCHANGED mgrVars
    /\ UNCHANGED procVars
    /\ UNCHANGED <<stMetaInt, extraGo, unsubPc, started, cancelled, srcPos, readLog, ring,
                   chunkBus, now, fanPc>>
    /\ UNCHANGED pollVars
    /\ UNCHANGED sessVars

(***************************************************************************)
(* runMetadataPoller.  A response of the metadata endpoint is a transport  *)
(* error or a status and a body; text is the string the template yields    *)
(* from a body that parses as a JSON object.                               *)
(***************************************************************************)
Responses == [neterr : BOOLEAN, status : {200, 500}, json : BOOLEAN, text : Texts]

\* HTTPProvider.Fetch: (string, error)
Fetch(resp) ==
    IF cancelled \/ resp.neterr THEN [ok |-> FALSE, meta |-> <<>>]
    ELSE IF ~resp.json THEN [ok |-> FALSE, meta |-> <<>>]
    ELSE [ok |-> TRUE, meta |-> resp.text]

\* an update whose store a reader can see half done: the first half of the
\* string is in the cell
FetchAndStoreTorn(resp) ==
    LET r == Fetch(resp)
    IN  /\ currentMeta' = IF r.ok THEN Ptr(SubSeq(r.meta, 1, Len(r.meta) \div 2))
                                   ELSE currentMeta
        /\ published' = IF r.ok THEN Append(published, r.meta) ELSE published
        /\ pollPc' = IF r.ok THEN "stamp" ELSE "wait"

\* a poller that empties the cell when its fetch fails
FetchAndStoreClears(resp) ==
    LET r == Fetch(resp)
    IN  /\ currentMeta' = IF r.ok THEN Ptr(r.meta) ELSE NULL
        /\ published' = IF r.ok THEN Append(published, r.meta) ELSE published
        /\ pollPc' = IF r.ok THEN "stamp" ELSE "wait"

\* if meta, err := s.metadata.Fetch(s.ctx); err == nil { s.UpdateMetadata(meta) }
\* UpdateMetadata is two atomic stores: the text here, the time in PollStamp
FetchAndStore(resp) ==
    LET r == Fetch(resp)
    IN  /\ currentMeta' = IF r.ok THEN Ptr(r.meta) ELSE currentMeta
        /\ published' = IF r.ok THEN Append(published, r.meta) ELSE published
        /\ pollPc' = IF r.ok THEN "stamp" ELSE "wait"

\* a poller that makes its first fetch at the first tick
PollFirstAtTick(resp) ==
    /\ pollPc = "first"
    /\ tickPending
    /\ tickPending' = FALSE
    /\ FetchAndStore(resp)
    /\ UNCHANGED lastMetaAt
    /\ UNCHANGED callVars
    /\ UNCHANGED mgrVars
    /\ UNCHANGED procVars
    /\ UNCHANGED <<stMetaInt, extraGo, unsubPc, started, cancelled, chunkBus, now, fanPc>>
    /\ UNCHANGED srcVars
    /\ UNCHANGED sessVars

\* the fetch made before the first tick
PollFirst(resp) ==
    /\ pollPc = "first"
    /\ FetchAndStore(resp)
    /\ UNCHANGED <<lastMetaAt, tickPending>>
    /\ UNCHANGED callVars
    /\ UNCHANGED mgrVars
    /\ UNCHANGED procVars
    /\ UNCHANGED <<stMetaInt, extraGo, unsubPc, started, cancelled, chunkBus, now, fanPc>>
    /\ UNCHANGED srcVars
    /\ UNCHANGED sessVars

\* case <-ticker.C
PollTick(resp) ==
    /\ pollPc = "wait"
    /\ tickPending
    /\ tickPending' = FALSE
    /\ FetchAndStore(resp)
    /\ UNCHANGED lastMetaAt
    /\ UNCHANGED callVars
    /\ UNCHANGED mgrVars
    /\ UNCHANGED procVars
    /\ UNCHANGED <<stMetaInt, extraGo, unsubPc, started, cancelled, chunkBus, now, fanPc>>
    /\ UNCHANGED srcVars
    /\ UNCHANGED sessVars

\* now := time.Now(); s.lastMetaAt.Store(&now)
PollStamp ==
    /\ pollPc = "stamp"
    /\ lastMetaAt' = Ptr(now)
    /\ pollPc' = "wait"
    /\ UNCHANGED <<currentMeta, published, tickPending>>
    /\ UNCHANGED callVars
    /\ UNCHANGED mgrVars
    /\ UNCHANGED procVars
    /\ UNCHANGED <<stMetaInt, extraGo, unsubPc, started, cancelled, chunkBus, now, fanPc>>
    /\ UNCHANGED srcVars
    /\ UNCHANGED sessVars

\* case <-s.ctx.Done()
PollCancelled ==
    /\ pollPc = "wait"
    /\ cancelled
    /\ pollPc' = "done"
    /\ UNCHANGED <<currentMeta, lastMetaAt, published, tickPending>>
    /\ UNCHANGED callVars
    /\ UNCHANGED mgrVars
    /\ UNCHANGED procVars
    /\ UNCHANGED <<stMetaInt, extraGo, unsubPc, started, cancelled, chunkBus, now, fanPc>>
    /\ UNCHANGED srcVars
    /\ UNCHANGED sessVars

\* a poll interval passes; a running ticker puts a tick in ticker.C (which
\* holds one tick)
Tick ==
    /\ now < MaxTime
    /\ now' = now + 1
    /\ tickPending' = IF pollPc \in {"first", "stamp", "wait"} THEN TRUE ELSE tickPending
    /\ UNCHANGED <<pollPc, currentMeta, lastMetaAt, published>>
    /\ UNCHANGED callVars
    /\ UNCHANGED mgrVars
    /\ UNCHANGED procVars
    /\ UNCHANGED <<stMetaInt, extraGo, unsubPc, started, cancelled, chunkBus, fanPc>>
    /\ UNCHANGED srcVars
    /\ UNCHANGED sessVars

(***************************************************************************)
(* runFanOut.                                                              *)
(***************************************************************************)
\* a dispatcher that hands over the first byte of the chunk only
OfferFirstByte(q, chunk) == IF Len(q) < MailboxCap THEN Append(q, <<Head(chunk)>>) ELSE q

\* select { case client.ch <- chunk: default: }
Offer(q, chunk) == IF Len(q) < MailboxCap THEN Append(q, chunk) ELSE q

\* a dispatcher whose send to a client waits for room in the client's channel
FanOutWaits ==
    /\ fanPc = "run"
    /\ chunkBus # <<>>
    /\ \A c \in clients : Len(mailbox[c]) < MailboxCap
    /\ chunkBus' = Tail(chunkBus)
    /\ mailbox' = [c \in Clients |->
                      IF c \in clients /\ chState[c] # "nil"
                      THEN Append(mailbox[c], Head(chunkBus))
                      ELSE mailbox[c]]
    /\ UNCHANGED callVars
    /\ UNCHANGED mgrVars
    /\ UNCHANGED procVars
    /\ UNCHANGED <<stMetaInt, extraGo, unsubPc, started, cancelled, now, fanPc>>
    /\ UNCHANGED <<clients, sessPc, reqIcy, status, wantsMetadata, headers,
                   metaInt,
                   bytesUntilMeta, chState, cur, body, taken>>
    /\ UNCHANGED srcVars
    /\ UNCHANGED pollVars

\* a dispatcher that drops the chunk for every client when one client's channel is full
FanOutAllOrNothing ==
    /\ fanPc = "run"
    /\ chunkBus # <<>>
    /\ chunkBus' = Tail(chunkBus)
    /\ mailbox' = [c \in Clients |->
                      IF /\ c \in clients /\ chState[c] # "nil"
                         /\ \A d \in clients : Len(mailbox[d]) < MailboxCap
                      THEN Append(mailbox[c], Head(chunkBus))
                      ELSE mailbox[c]]
    /\ UNCHANGED callVars
    /\ UNCHANGED mgrVars
    /\ UNCHANGED procVars
    /\ UNCHANGED <<stMetaInt, extraGo, unsubPc, started, cancelled, now, fanPc>>
    /\ UNCHANGED <<clients, sessPc, reqIcy, status, wantsMetadata, headers,
                   metaInt,
                   bytesUntilMeta, chState, cur, body, taken>>
    /\ UNCHANGED srcVars
    /\ UNCHANGED pollVars

\* case chunk := <-s.chunkBus: offer it to every client of s.clients
FanOut ==
    /\ fanPc = "run"
    /\ chunkBus # <<>>
    /\ chunkBus' = Tail(chunkBus)
    /\ mailbox' = [c \in Clients |->
                      IF c \in clients /\ chState[c] # "nil"
                      THEN Offer(mailbox[c], Head(chunkBus))
                      ELSE mailbox[c]]
    /\ UNCHANGED callVars
    /\ UNCHANGED mgrVars
    /\ UNCHANGED procVars
    /\ UNCHANGED <<stMetaInt, extraGo, unsubPc, started, cancelled, now, fanPc>>
    /\ UNCHANGED <<clients, sessPc, reqIcy, status, wantsMetadata, headers,
                   metaInt,
                   bytesUntilMeta, chState, cur, body, taken>>
    /\ UNCHANGED srcVars
    /\ UNCHANGED pollVars

\* case <-s.ctx.Done()
FanOutCancelled ==
    /\ fanPc = "run"
    /\ cancelled
    /\ fanPc' = "done"
    /\ UNCHANGED callVars
    /\ UNCHANGED mgrVars
    /\ UNCHANGED procVars
    /\ UNCHANGED <<stMetaInt, extraGo, unsubPc, started, cancelled, chunkBus, now>>
    /\ UNCHANGED srcVars
    /\ UNCHANGED pollVars
    /\ UNCHANGED sessVars

(***************************************************************************)
(* StreamHandler.ServeHTTP for a request /{station}/stream of the station. *)
(***************************************************************************)
\* the values of the request's Icy-MetaData header ("" when it is absent)
IcyValues == {"1", ""}

\* a handler that takes every request but Icy-MetaData: 0 as asking for metadata
WantsMetaUnlessZero(icy) == icy # "0"

\* wantsMetadata := r.Header.Get("Icy-MetaData") == "1"
WantsMeta(icy) == icy = "1"

\* a handler that announces icy-metaint to every listener
ResponseHeadersAlways(wants) ==
    {<<"Content-Type", "audio/mpeg">>, <<"icy-name", "ICYName">>,
     <<"icy-br", "BitrateHint">>, <<"Cache-Control", "no-store">>,
     <<"Connection", "close">>, <<"icy-metaint", stMetaInt>>}

\* the headers set before WriteHeader(200)
ResponseHeaders(wants) ==
    {<<"Content-Type", "audio/mpeg">>, <<"icy-name", "ICYName">>,
     <<"icy-br", "BitrateHint">>, <<"Cache-Control", "no-store">>,
     <<"Connection", "close">>}
    \cup (IF wants THEN {<<"icy-metaint", MetaInt>>} ELSE {})

\* a handler that starts its client with what the ring buffer holds
AttachWithReplay(c, icy) ==
    /\ sessPc[c] = "idle"
    /\ reqIcy' = [reqIcy EXCEPT ![c] = icy]
    /\ status' = [status EXCEPT ![c] = 200]
    /\ wantsMetadata' = [wantsMetadata EXCEPT ![c] = WantsMeta(icy)]
    /\ headers' = [headers EXCEPT ![c] = ResponseHeaders(WantsMeta(icy))]
    /\ chState' = [chState EXCEPT ![c] = "open"]
    /\ clients' = clients \cup {c}
    /\ metaInt' = [metaInt EXCEPT ![c] = IF WantsMeta(icy) THEN MetaInt ELSE 0]
    /\ bytesUntilMeta' = [bytesUntilMeta EXCEPT ![c] = IF WantsMeta(icy) THEN MetaInt ELSE 0]
    /\ sessPc' = [sessPc EXCEPT ![c] = "select"]
    /\ mailbox' = [mailbox EXCEPT ![c] = IF ring.n > 0 THEN <<Snapshot(ring)>> ELSE <<>>]
    /\ UNCHANGED <<cur, body, taken>>
    /\ UNCHANGED callVars
    /\ UNCHANGED mgrVars
    /\ UNCHANGED procVars
    /\ UNCHANGED <<stMetaInt, extraGo, unsubPc, started, cancelled, chunkBus, now, fanPc>>
    /\ UNCHANGED srcVars
    /\ UNCHANGED pollVars

\* the handler up to its loop: headers, WriteHeader, Subscribe, the counters
Attach(c, icy) ==
    /\ sessPc[c] = "idle"
    /\ reqIcy' = [reqIcy EXCEPT ![c] = icy]
    /\ status' = [status EXCEPT ![c] = 200]
    /\ wantsMetadata' = [wantsMetadata EXCEPT ![c] = WantsMeta(icy)]
    /\ headers' = [headers EXCEPT ![c] = ResponseHeaders(WantsMeta(icy))]
    /\ chState' = [chState EXCEPT ![c] = "open"]
    /\ clients' = clients \cup {c}
    /\ metaInt' = [metaInt EXCEPT ![c] = IF WantsMeta(icy) THEN MetaInt ELSE 0]
    /\ bytesUntilMeta' = [bytesUntilMeta EXCEPT ![c] = IF WantsMeta(icy) THEN MetaInt ELSE 0]
    /\ sessPc' = [sessPc EXCEPT ![c] = "select"]
    /\ UNCHANGED <<mailbox, cur, body, taken>>
    /\ UNCHANGED callVars
    /\ UNCHANGED mgrVars
    /\ UNCHANGED procVars
    /\ UNCHANGED <<stMetaInt, extraGo, unsubPc, started, cancelled, chunkBus, now, fanPc>>
    /\ UNCHANGED srcVars
    /\ UNCHANGED pollVars

(***************************************************************************)
(* Routing.  The registry of the manager holds the station of this model;  *)
(* a request path is the sequence of its segments.                         *)
(***************************************************************************)
Stations == {"s1"}

Paths == {<<"s1", "stream">>, <<"zz", "stream">>, <<"s1", "meta">>, <<"zz", "meta">>,
          <<"s1">>, <<"s1", "stream", "x">>}

\* a registry in which every identifier is found
KnownAlways(id) == TRUE

\* st := h.mgr.Get(stationID); st != nil
Known(id) == id \in Stations

\* !(len(parts) != 2 || parts[1] != suffix)
WellFormed(path, suffix) == Len(path) = 2 /\ path[2] = suffix

\* what http.NotFound writes
NotFoundHeaders ==
    {<<"Content-Type", "text/plain; charset=utf-8">>,
     <<"X-Content-Type-Options", "nosniff">>}

NotFoundBody == <<[kind |-> "text", data |-> <<"404 page not found">>]>>

\* http.NotFound(w, r); return: at is the return taken, "badpath" for a path
\* that is not /{station}/{suffix}, "nostation" for a station not registered
NotFound(c, at) ==
    /\ sessPc[c] = "idle"
    /\ status' = [status EXCEPT ![c] = 404]
    /\ headers' = [headers EXCEPT ![c] = NotFoundHeaders]
    /\ body' = [body EXCEPT ![c] = NotFoundBody]
    /\ sessPc' = [sessPc EXCEPT ![c] = at]
    /\ UNCHANGED <<clients, reqIcy, wantsMetadata, metaInt, bytesUntilMeta, mailbox,
                   chState, cur, taken>>
    /\ UNCHANGED callVars
    /\ UNCHANGED mgrVars
    /\ UNCHANGED procVars
    /\ UNCHANGED <<stMetaInt, extraGo, unsubPc, started, cancelled, chunkBus, now, fanPc>>
    /\ UNCHANGED srcVars
    /\ UNCHANGED pollVars

\* StreamHandler.ServeHTTP for any path
StreamRequest(c, path, icy) ==
    IF ~WellFormed(path, "stream") THEN NotFound(c, "badpath")
    ELSE IF ~Known(path[1]) THEN NotFound(c, "nostation")
    ELSE Attach(c, icy)

\* the JSON document of MetaHandler
MetaBody ==
    <<[kind |-> "json",
       data |-> [current |-> CurrentMetadata, updated_at |-> LastMetadataUpdate,
                 sourceHealthy |-> SourceHealthy]]>>

\* MetaHandler.ServeHTTP for a station of the registry
MetaFound(c) ==
    /\ sessPc[c] = "idle"
    /\ status' = [status EXCEPT ![c] = 200]
    /\ headers' = [headers EXCEPT ![c] = {<<"Content-Type", "application/json">>}]
    /\ body' = [body EXCEPT ![c] = MetaBody]
    /\ sessPc' = [sessPc EXCEPT ![c] = "done"]
    /\ UNCHANGED <<clients, reqIcy, wantsMetadata, metaInt, bytesUntilMeta, mailbox,
                   chState, cur, taken>>
    /\ UNCHANGED callVars
    /\ UNCHANGED mgrVars
    /\ UNCHANGED procVars
    /\ UNCHANGED <<stMetaInt, extraGo, unsubPc, started, cancelled, chunkBus, now, fanPc>>
    /\ UNCHANGED srcVars
    /\ UNCHANGED pollVars

\* MetaHandler.ServeHTTP for any path
MetaRequest(c, path) ==
    IF ~WellFormed(path, "meta") THEN NotFound(c, "badpath")
    ELSE IF ~Known(path[1]) THEN NotFound(c, "nostation")
    ELSE MetaFound(c)

\* an Unsubscribe that clears the whole set of clients
UnsubscribeAll(c) ==
    /\ clients' = {}
    /\ chState' = [chState EXCEPT ![c] = IF chState[c] = "open" THEN "closed" ELSE chState[c]]

\* st.Unsubscribe(client), deferred: RemoveClient, close(c.ch), c.ch = nil
Unsubscribe(c) ==
    /\ clients' = clients \ {c}
    /\ chState' = [chState EXCEPT ![c] = IF chState[c] = "open" THEN "closed" ELSE chState[c]]

\* case chunk, ok := <-chunks
SessionRecv(c) ==
    /\ sessPc[c] = "select"
    /\ mailbox[c] # <<>>
    /\ cur' = [cur EXCEPT ![c] = Head(mailbox[c])]
    /\ taken' = [taken EXCEPT ![c] = taken[c] \o Head(mailbox[c])]
    /\ mailbox' = [mailbox EXCEPT ![c] = Tail(mailbox[c])]
    /\ sessPc' = [sessPc EXCEPT ![c] = "write"]
    /\ UNCHANGED <<clients, reqIcy, status, wantsMetadata, headers,
                   metaInt,
                   bytesUntilMeta, chState, body>>
    /\ UNCHANGED callVars
    /\ UNCHANGED mgrVars
    /\ UNCHANGED procVars
    /\ UNCHANGED <<stMetaInt, extraGo, unsubPc, started, cancelled, chunkBus, now, fanPc>>
    /\ UNCHANGED srcVars
    /\ UNCHANGED pollVars

\* a handler that writes the whole chunk whatever is left of the interval
ToWriteUncapped(len, until) == len

\* a handler that stops one byte short of the point of the next block
ToWriteShort(len, until) == IF len >= until THEN until - 1 ELSE len

\* toWrite := len(chunk); if toWrite > bytesUntilMeta { toWrite = bytesUntilMeta }
ToWrite(len, until) == IF len > until THEN until ELSE len

\* meta := st.CurrentMetadata(); if meta == "" { meta = "StreamTitle='';" }
MetaToInject(meta) == IF meta = <<>> THEN DefaultMeta ELSE meta

Audio(data) == [kind |-> "audio", data |-> data]
Icy(block)  == [kind |-> "icy", data |-> block]

\* one turn of "for len(chunk) > 0", both writes succeeding; the Flush and the
\* return to the select when the chunk is used up
SessionWrite(c) ==
    /\ sessPc[c] = "write"
    /\ IF wantsMetadata[c]
       THEN LET toWrite == ToWrite(Len(cur[c]), bytesUntilMeta[c])
                left    == bytesUntilMeta[c] - toWrite
                written == Append(body[c], Audio(SubSeq(cur[c], 1, toWrite)))
            IN  /\ cur' = [cur EXCEPT ![c] = SubSeq(cur[c], toWrite + 1, Len(cur[c]))]
                /\ IF left = 0
                   THEN /\ body' = [body EXCEPT ![c] =
                               Append(written, Icy(BuildBlock(MetaToInject(CurrentMetadata))))]
                        /\ bytesUntilMeta' = [bytesUntilMeta EXCEPT ![c] = metaInt[c]]
                   ELSE /\ body' = [body EXCEPT ![c] = written]
                        /\ bytesUntilMeta' = [bytesUntilMeta EXCEPT ![c] = left]
       ELSE /\ body' = [body EXCEPT ![c] = Append(body[c], Audio(cur[c]))]
            /\ cur' = [cur EXCEPT ![c] = <<>>]
            /\ UNCHANGED bytesUntilMeta
    /\ sessPc' = [sessPc EXCEPT ![c] = IF cur'[c] = <<>> THEN "select" ELSE "write"]
    /\ UNCHANGED <<clients, reqIcy, status, wantsMetadata, headers,
                   metaInt, mailbox,
                   chState, taken>>
    /\ UNCHANGED callVars
    /\ UNCHANGED mgrVars
    /\ UNCHANGED procVars
    /\ UNCHANGED <<stMetaInt, extraGo, unsubPc, started, cancelled, chunkBus, now, fanPc>>
    /\ UNCHANGED srcVars
    /\ UNCHANGED pollVars

\* a w.Write returns an error (having written nothing): the handler returns.
\* atBlock: the audio write succeeded and the write of the ICY block failed
SessionWriteError(c, atBlock) ==
    /\ sessPc[c] = "write"
    /\ LET toWrite == ToWrite(Len(cur[c]), bytesUntilMeta[c])
       IN  IF atBlock
           THEN /\ wantsMetadata[c]
                /\ bytesUntilMeta[c] - toWrite = 0
                /\ body' = [body EXCEPT ![c] = Append(body[c], Audio(SubSeq(cur[c], 1, toWrite)))]
                /\ cur' = [cur EXCEPT ![c] = SubSeq(cur[c], toWrite + 1, Len(cur[c]))]
                /\ bytesUntilMeta' = [bytesUntilMeta EXCEPT ![c] = 0]
           ELSE UNCHANGED <<body, cur, bytesUntilMeta>>
    /\ Unsubscribe(c)
    /\ sessPc' = [sessPc EXCEPT ![c] = "done"]
    /\ UNCHANGED <<reqIcy, status, wantsMetadata, headers,
                   metaInt, mailbox, taken>>
    /\ UNCHANGED callVars
    /\ UNCHANGED mgrVars
    /\ UNCHANGED procVars
    /\ UNCHANGED <<stMetaInt, extraGo, unsubPc, started, cancelled, chunkBus, now, fanPc>>
    /\ UNCHANGED srcVars
    /\ UNCHANGED pollVars

\* case <-r.Context().Done(): the listener went away
SessionDisconnect(c) ==
    /\ sessPc[c] = "select"
    /\ Unsubscribe(c)
    /\ sessPc' = [sessPc EXCEPT ![c] = "done"]
    /\ UNCHANGED <<reqIcy, status, wantsMetadata, headers,
                   metaInt, bytesUntilMeta,
                   mailbox, cur, body, taken>>
    /\ UNCHANGED callVars
    /\ UNCHANGED mgrVars
    /\ UNCHANGED procVars
    /\ UNCHANGED <<stMetaInt, extraGo, unsubPc, started, cancelled, chunkBus, now, fanPc>>
    /\ UNCHANGED srcVars
    /\ UNCHANGED pollVars

(***************************************************************************)
(* Station.Unsubscribe called by goroutines other than the handler, one    *)
(* statement at a time.  RemoveClient holds s.clientsMu; the test of c.ch, *)
(* close(c.ch) and c.ch = nil hold no lock.  chState "closing" is a closed *)
(* channel that c.ch still points to, "closed" a closed channel and c.ch   *)
(* nil.                                                                    *)
(***************************************************************************)
UnsubAt(u, pc, c) == [unsubPc EXCEPT ![u] = [pc |-> pc, c |-> c]]

\* s.Unsubscribe(c) is called, for a client that has subscribed
UnsubCall(u, c) ==
    /\ unsubPc[u].pc \in {"idle", "done"}
    /\ chState[c] # "nil"
    /\ unsubPc' = UnsubAt(u, "remove", c)
    /\ UNCHANGED callVars
    /\ UNCHANGED mgrVars
    /\ UNCHANGED procVars
    /\ UNCHANGED <<stMetaInt, extraGo, started, cancelled, chunkBus, now, fanPc>>
    /\ UNCHANGED srcVars
    /\ UNCHANGED pollVars
    /\ UNCHANGED sessVars

\* s.RemoveClient(c)
UnsubRemove(u) ==
    /\ unsubPc[u].pc = "remove"
    /\ clients' = clients \ {unsubPc[u].c}
    /\ unsubPc' = UnsubAt(u, "check", unsubPc[u].c)
    /\ UNCHANGED <<sessPc, reqIcy, status, wantsMetadata, headers, metaInt,
                   bytesUntilMeta, mailbox, chState, cur, body, taken>>
    /\ UNCHANGED callVars
    /\ UNCHANGED mgrVars
    /\ UNCHANGED procVars
    /\ UNCHANGED <<stMetaInt, extraGo, started, cancelled, chunkBus, now, fanPc>>
    /\ UNCHANGED srcVars
    /\ UNCHANGED pollVars

\* if c.ch != nil
UnsubCheck(u) ==
    /\ unsubPc[u].pc = "check"
    /\ unsubPc' = UnsubAt(u, IF chState[unsubPc[u].c] \in {"open", "closing"}
                             THEN "close" ELSE "done", unsubPc[u].c)
    /\ UNCHANGED callVars
    /\ UNCHANGED mgrVars
    /\ UNCHANGED procVars
    /\ UNCHANGED <<stMetaInt, extraGo, started, cancelled, chunkBus, now, fanPc>>
    /\ UNCHANGED srcVars
    /\ UNCHANGED pollVars
    /\ UNCHANGED sessVars

\* close(c.ch): the close of a channel already closed, or of a nil channel,
\* panics
UnsubClose(u) ==
    /\ unsubPc[u].pc = "close"
    /\ IF chState[unsubPc[u].c] = "open"
       THEN /\ chState' = [chState EXCEPT ![unsubPc[u].c] = "closing"]
            /\ unsubPc' = UnsubAt(u, "clear", unsubPc[u].c)
       ELSE /\ unsubPc' = UnsubAt(u, "panic", unsubPc[u].c)
            /\ UNCHANGED chState
    /\ UNCHANGED <<clients, sessPc, reqIcy, status, wantsMetadata, headers, metaInt,
                   bytesUntilMeta, mailbox, cur, body, taken>>
    /\ UNCHANGED callVars
    /\ UNCHANGED mgrVars
    /\ UNCHANGED procVars
    /\ UNCHANGED <<stMetaInt, extraGo, started, cancelled, chunkBus, now, fanPc>>
    /\ UNCHANGED srcVars
    /\ UNCHANGED pollVars

\* c.ch = nil
UnsubClear(u) ==
    /\ unsubPc[u].pc = "clear"
    /\ chState' = [chState EXCEPT ![unsubPc[u].c] = "closed"]
    /\ unsubPc' = UnsubAt(u, "done", unsubPc[u].c)
    /\ UNCHANGED <<clients, sessPc, reqIcy, status, wantsMetadata, headers, metaInt,
                   bytesUntilMeta, mailbox, cur, body, taken>>
    /\ UNCHANGED callVars
    /\ UNCHANGED mgrVars
    /\ UNCHANGED procVars
    /\ UNCHANGED <<stMetaInt, extraGo, started, cancelled, chunkBus, now, fanPc>>
    /\ UNCHANGED srcVars
    /\ UNCHANGED pollVars

\* case chunk, ok := <-chunks with ok false: the channel was closed by another
\* goroutine and is drained; the handler returns and its deferred Unsubscribe
\* runs, closing the channel again (a panic) if c.ch is not nil yet
SessionChannelClosed(c) ==
    /\ sessPc[c] = "select"
    /\ mailbox[c] = <<>>
    /\ chState[c] \in {"closing", "closed"}
    /\ clients' = clients \ {c}
    /\ sessPc' = [sessPc EXCEPT ![c] = IF chState[c] = "closing" THEN "panic" ELSE "done"]
    /\ UNCHANGED <<reqIcy, status, wantsMetadata, headers, metaInt, bytesUntilMeta,
                   mailbox, chState, cur, body, taken>>
    /\ UNCHANGED callVars
    /\ UNCHANGED mgrVars
    /\ UNCHANGED procVars
    /\ UNCHANGED <<stMetaInt, extraGo, unsubPc, started, cancelled, chunkBus, now, fanPc>>
    /\ UNCHANGED srcVars
    /\ UNCHANGED pollVars

(***************************************************************************)
(* icy.BuildBlock called on its own, as the encoder's tests do: the        *)
(* argument is kept in cur[c], the result in body[c].                      *)
(***************************************************************************)
\* a text of n bytes, none of them zero
TextOfLen(n) == [i \in 1..n |-> (i % 250) + 1]

TextLens == (0..MaxTextLen) \cup ((MaxPayload - MaxTextLen)..(MaxPayload + MaxTextLen))

\* block := icy.BuildBlock(text)
CallBuildBlock(c, text) ==
    /\ sessPc[c] = "idle"
    /\ cur' = [cur EXCEPT ![c] = text]
    /\ body' = [body EXCEPT ![c] = <<Icy(BuildBlock(text))>>]
    /\ sessPc' = [sessPc EXCEPT ![c] = "encoded"]
    /\ UNCHANGED <<clients, reqIcy, status, wantsMetadata, headers, metaInt,
                   bytesUntilMeta, mailbox, chState, taken>>
    /\ UNCHANGED callVars
    /\ UNCHANGED mgrVars
    /\ UNCHANGED procVars
    /\ UNCHANGED <<stMetaInt, extraGo, unsubPc, started, cancelled, chunkBus, now, fanPc>>
    /\ UNCHANGED srcVars
    /\ UNCHANGED pollVars

(***************************************************************************)
(* ring.Buffer on its own, as the buffer's tests use it.  Write and        *)
(* Snapshot hold b.mu from entry to return, so the calls of concurrent     *)
(* goroutines take effect one whole call after another, in any order.      *)
(***************************************************************************)
\* the capacities with which a full buffer drops at least one byte
RingSizes == {k \in 1..MaxRingSize : k \div 4 > 0}

\* buf := ring.New(size), in place of the station's buffer
NewBuffer(size) ==
    /\ ~started
    /\ readLog = <<>>
    /\ ring = RingNew(RingSize)
    /\ size # RingSize
    /\ ring' = RingNew(size)
    /\ UNCHANGED <<srcPc, srcPos, readLog, pending, pendingErr, sourceHealthy>>
    /\ UNCHANGED callVars
    /\ UNCHANGED mgrVars
    /\ UNCHANGED procVars
    /\ UNCHANGED <<stMetaInt, extraGo, unsubPc, started, cancelled, chunkBus, now, fanPc>>
    /\ UNCHANGED pollVars
    /\ UNCHANGED sessVars

\* buf.Write(p) with the next n bytes
BufferWrite(n) ==
    /\ ~started
    /\ srcPos + n <= MaxRingBytes
    /\ ring' = RingWrite(ring, SourceBytes(n))
    /\ readLog' = Append(readLog, SourceBytes(n))
    /\ srcPos' = srcPos + n
    /\ UNCHANGED <<srcPc, pending, pendingErr, sourceHealthy>>
    /\ UNCHANGED callVars
    /\ UNCHANGED mgrVars
    /\ UNCHANGED procVars
    /\ UNCHANGED <<stMetaInt, extraGo, unsubPc, started, cancelled, chunkBus, now, fanPc>>
    /\ UNCHANGED pollVars
    /\ UNCHANGED sessVars

(***************************************************************************)
(* The manager and its stations.  NewFromConfig allocates, for each        *)
(* station of the configuration, a ring buffer and, in station.New, the    *)
(* chunk bus, the set of clients, the context and the struct that holds    *)
(* the metadata cell and the health flag; m.stations keeps, by identifier, *)
(* the references of the station's objects into the heap.  The activities  *)
(* of a station are reduced to what they do to these objects.              *)
(***************************************************************************)
StationIds == {"s1", "s2"}

\* cfg.Stations: the identifiers of the stations listed, in order
Configs == {<<a>> : a \in StationIds} \cup {<<a, b>> : a, b \in StationIds}

\* the objects of a station, as they are when station.New returns
NewObjects ==
    <<RingNew(RingSize), <<>>, {}, NULL, FALSE, FALSE, [started |-> FALSE, running |-> {}]>>

\* a manager whose stations all write to the buffer allocated first
StationRefsShared(n) ==
    [buffer |-> 1, bus |-> n + 2, clients |-> n + 3, cell |-> n + 4,
     healthy |-> n + 5, ctx |-> n + 6, acts |-> n + 7]

\* the references of the objects of a station created when n objects exist
StationRefs(n) ==
    [buffer |-> n + 1, bus |-> n + 2, clients |-> n + 3, cell |-> n + 4,
     healthy |-> n + 5, ctx |-> n + 6, acts |-> n + 7]

\* the loop of NewFromConfig: mgr.stations[stCfg.ID] = st
RECURSIVE Registry(_, _)
Registry(cfg, k) ==
    IF k = 0 THEN <<>>
    ELSE LET before == Registry(cfg, k - 1)
             st     == StationRefs((k - 1) * Len(NewObjects))
         IN  [id \in (DOMAIN before) \cup {cfg[k]} |->
                 IF id = cfg[k] THEN st ELSE before[id]]

RECURSIVE Allocated(_)
Allocated(k) == IF k = 0 THEN <<>> ELSE Allocated(k - 1) \o NewObjects

\* mgr, err := manager.NewFromConfig(cfg)
NewFromConfig(cfg) ==
    /\ heap = <<>>
    /\ stations' = Registry(cfg, Len(cfg))
    /\ heap' = Allocated(Len(cfg))
    /\ UNCHANGED callVars
    /\ UNCHANGED procVars
    /\ UNCHANGED <<stMetaInt, extraGo, unsubPc, started, cancelled, chunkBus, now, fanPc>>
    /\ UNCHANGED srcVars
    /\ UNCHANGED pollVars
    /\ UNCHANGED sessVars

\* the object of station id that field names
Obj(id, field) == heap[stations[id][field]]

\* an action of station id that assigns the objects named in upd
StationStep(id, upd) ==
    /\ heap' = [r \in DOMAIN heap |->
                  IF \E f \in DOMAIN upd : stations[id][f] = r
                  THEN upd[CHOOSE f \in DOMAIN upd : stations[id][f] = r]
                  ELSE heap[r]]
    /\ UNCHANGED stations
    /\ UNCHANGED callVars
    /\ UNCHANGED procVars
    /\ UNCHANGED <<stMetaInt, extraGo, unsubPc, started, cancelled, chunkBus, now, fanPc>>
    /\ UNCHANGED srcVars
    /\ UNCHANGED pollVars
    /\ UNCHANGED sessVars

Runs(id, g) == g \in Obj(id, "acts").running /\ ~Obj(id, "ctx")

\* st.Start(), called by Manager.Start for one station after the other
StationStart(id) ==
    /\ id \in DOMAIN stations
    /\ ~Obj(id, "acts").started
    /\ StationStep(id, [acts |-> [started |-> TRUE, running |-> Goroutines]])

\* Connect succeeds (the source is healthy) or fails, or a Read fails (the
\* source is not healthy and the reader returns)
StationSource(id, ok) ==
    /\ id \in DOMAIN stations
    /\ Runs(id, "reader")
    /\ StationStep(id, [healthy |-> ok,
                        acts |-> [started |-> TRUE,
                                  running |-> IF ok THEN Obj(id, "acts").running
                                              ELSE Obj(id, "acts").running \ {"reader"}]])

\* the reader writes a chunk of one byte to the buffer and sends it to the bus
StationChunk(id) ==
    /\ id \in DOMAIN stations
    /\ Runs(id, "reader")
    /\ Obj(id, "healthy")
    /\ Obj(id, "buffer").n < MaxChunks
    /\ Len(Obj(id, "bus")) < ChunkBusCap
    /\ LET chunk == <<Obj(id, "buffer").n + 1>>
       IN  StationStep(id, [buffer |-> RingWrite(Obj(id, "buffer"), chunk),
                            bus |-> Append(Obj(id, "bus"), chunk)])

\* the poller's fetch: UpdateMetadata when it succeeds, nothing when it fails
StationMeta(id, ok) ==
    /\ id \in DOMAIN stations
    /\ Runs(id, "poller")
    /\ StationStep(id, [cell |-> IF ok THEN Ptr(TitleA) ELSE Obj(id, "cell")])

\* the dispatcher takes a chunk from the bus and offers it to the clients, of
\* which a slow one lets it drop
StationDispatch(id) ==
    /\ id \in DOMAIN stations
    /\ Runs(id, "dispatcher")
    /\ Obj(id, "bus") # <<>>
    /\ StationStep(id, [bus |-> Tail(Obj(id, "bus"))])

\* Subscribe by a handler; Unsubscribe when it returns (listener gone, write
\* failed)
StationAttach(id, c) ==
    /\ id \in DOMAIN stations
    /\ c \notin Obj(id, "clients")
    /\ StationStep(id, [clients |-> Obj(id, "clients") \cup {c}])

StationDetach(id, c) ==
    /\ id \in DOMAIN stations
    /\ c \in Obj(id, "clients")
    /\ StationStep(id, [clients |-> Obj(id, "clients") \ {c}])

\* st.Shutdown(): s.cancel()
StationShutdown(id) ==
    /\ id \in DOMAIN stations
    /\ ~Obj(id, "ctx")
    /\ StationStep(id, [ctx |-> TRUE])

\* the goroutines of a station return on <-s.ctx.Done()
StationStopped(id) ==
    /\ id \in DOMAIN stations
    /\ Obj(id, "ctx")
    /\ Obj(id, "acts").running # {}
    /\ StationStep(id, [acts |-> [started |-> TRUE, running |-> {}]])

(***************************************************************************)
(* run() in main.go once the server listens: the signal, srv.Shutdown with *)
(* its budget of 10 s, mgr.Shutdown and the exit of the process.           *)
(***************************************************************************)
\* the connections whose handler has not returned, for which srv.Shutdown waits
ActiveConns == {c \in Clients : sessPc[c] \in {"select", "write"}}

\* the process has not exited
Alive == mainPc # "exit"

\* the server takes a new connection: its listener is open
Accept(c, icy) ==
    /\ started
    /\ mainPc = "run"
    /\ Attach(c, icy)

\* <-sigint: srv.Shutdown(ctx) closes the listener and waits for the active
\* connections; ListenAndServe returns ErrServerClosed and run waits for the
\* result of srv.Shutdown
Signal ==
    /\ started
    /\ mainPc = "run"
    /\ mainPc' = "drain"
    /\ UNCHANGED <<exitCode, stMetaInt, extraGo, unsubPc, started, cancelled, chunkBus, now, fanPc>>
    /\ UNCHANGED callVars
    /\ UNCHANGED mgrVars
    /\ UNCHANGED srcVars
    /\ UNCHANGED pollVars
    /\ UNCHANGED sessVars

\* srv.Shutdown returns nil, no connection being active: mgr.Shutdown calls
\* the Shutdown of the station, run returns nil and main returns
DrainDone ==
    /\ mainPc = "drain"
    /\ ActiveConns = {}
    /\ cancelled' = TRUE
    /\ mainPc' = "exit"
    /\ exitCode' = Ptr(0)
    /\ UNCHANGED <<stMetaInt, extraGo, unsubPc, started, chunkBus, now, fanPc>>
    /\ UNCHANGED callVars
    /\ UNCHANGED mgrVars
    /\ UNCHANGED srcVars
    /\ UNCHANGED pollVars
    /\ UNCHANGED sessVars

\* the 10 s pass with a connection still active: srv.Shutdown returns the
\* context's error, run returns "shutdown: ..." without calling mgr.Shutdown
\* and main's log.Fatalf exits with code 1
DrainTimeout ==
    /\ mainPc = "drain"
    /\ ActiveConns # {}
    /\ mainPc' = "exit"
    /\ exitCode' = Ptr(1)
    /\ UNCHANGED <<stMetaInt, extraGo, unsubPc, started, cancelled, chunkBus, now, fanPc>>
    /\ UNCHANGED callVars
    /\ UNCHANGED mgrVars
    /\ UNCHANGED srcVars
    /\ UNCHANGED pollVars
    /\ UNCHANGED sessVars


(***************************************************************************)
(* The mux of run() and the handlers' own path checks, on paths spelled    *)
(* byte by byte.  http.ServeMux hands the "/" handler only cleaned paths:  *)
(* a path with "//" is redirected before any handler runs.                 *)
(***************************************************************************)
PathBytes == {"/", "s", "1"}

StreamSuffix == <<"/", "s", "t", "r", "e", "a", "m">>
MetaSuffix == <<"/", "m", "e", "t", "a">>
StationsPath == <<"/", "s", "t", "a", "t", "i", "o", "n", "s">>
HealthzPath == <<"/", "h", "e", "a", "l", "t", "h", "z">>

\* the identifiers of the registry, spelled byte by byte
StationNames == {<<"s", "1">>}

PathTails == {<<>>, StreamSuffix, MetaSuffix, <<"/", "s">>}

Cleaned(path) == \A i \in 1..(Len(path) - 1) : ~(path[i] = "/" /\ path[i + 1] = "/")

MuxPaths ==
    {StationsPath, HealthzPath} \cup
    {path \in {p \o t : p \in UNION {[1..k -> PathBytes] : k \in 0..MaxPrefixLen}, t \in PathTails} :
        /\ path # <<>>
        /\ path[1] = "/"
        /\ Cleaned(path)}

\* strings.Trim(s, "/")
RECURSIVE TrimSlash(_)
TrimSlash(s) ==
    IF s = <<>> THEN s
    ELSE IF s[1] = "/" THEN TrimSlash(Tail(s))
    ELSE IF s[Len(s)] = "/" THEN TrimSlash(SubSeq(s, 1, Len(s) - 1))
    ELSE s

\* strings.Split(s, "/")
RECURSIVE SplitSlash(_)
SplitSlash(s) ==
    IF \A i \in 1..Len(s) : s[i] # "/" THEN <<s>>
    ELSE LET i == CHOOSE k \in 1..Len(s) : s[k] = "/" /\ \A j \in 1..(k - 1) : s[j] # "/"
         IN <<SubSeq(s, 1, i - 1)>> \o SplitSlash(SubSeq(s, i + 1, Len(s)))

\* parts := strings.Split(strings.Trim(r.URL.Path, "/"), "/")
PathParts(path) == SplitSlash(TrimSlash(path))

\* s[len(s)-k:] == suffix; the slice expression panics when len(s) < k
HasSuffix(s, k, suffix) ==
    IF Len(s) < k THEN "panic"
    ELSE IF SubSeq(s, Len(s) - k + 1, Len(s)) = suffix THEN "yes" ELSE "no"

\* the handler the mux picks for r.URL.Path
MuxRoute(path) ==
    IF path = StationsPath THEN "stations"
    ELSE IF path = HealthzPath THEN "healthz"
    ELSE IF Len(path) > 1 /\ HasSuffix(path, 7, StreamSuffix) # "no"
         THEN IF HasSuffix(path, 7, StreamSuffix) = "panic" THEN "panic" ELSE "stream"
    ELSE IF Len(path) > 1 /\ HasSuffix(path, 5, MetaSuffix) # "no"
         THEN IF HasSuffix(path, 5, MetaSuffix) = "panic" THEN "panic" ELSE "meta"
    ELSE "notfound"

\* the status the picked handler answers with; 0 when the handler panicked and nothing was written
RouteStatus(path) ==
    LET route == MuxRoute(path)
        parts == PathParts(path)
        found(suffix) == Len(parts) = 2 /\ parts[2] = Tail(suffix) /\ parts[1] \in StationNames
    IN CASE route = "panic" -> 0
         [] route = "notfound" -> 404
         [] route = "stream" -> IF found(StreamSuffix) THEN 200 ELSE 404
         [] route = "meta" -> IF found(MetaSuffix) THEN 200 ELSE 404
         [] OTHER -> 200

\* the server hands the request of connection c to the mux
ServeMux(c, path) ==
    /\ sessPc[c] = "idle"
    /\ reqPath' = [reqPath EXCEPT ![c] = path]
    /\ status' = [status EXCEPT ![c] = RouteStatus(path)]
    /\ sessPc' = [sessPc EXCEPT ![c] = IF MuxRoute(path) = "panic" THEN "panic" ELSE "routed"]
    /\ UNCHANGED <<clients, reqIcy, wantsMetadata, headers, metaInt,
                   bytesUntilMeta, mailbox, chState, cur, body, taken>>
    /\ UNCHANGED <<relaunched, writeP, writePc, fetched>>
    /\ UNCHANGED mgrVars
    /\ UNCHANGED procVars
    /\ UNCHANGED <<stMetaInt, extraGo, unsubPc, started, cancelled, chunkBus, now, fanPc>>
    /\ UNCHANGED srcVars
    /\ UNCHANGED pollVars


(***************************************************************************)
(* Buffer.Write one turn of its loop at a time, b.mu held throughout: the  *)
(* test of len(p) with the drop of a full buffer, then the copy.  srcPos   *)
(* counts the bytes copied into the storage so far.                        *)
(***************************************************************************)
\* b.Write(p) is called with the next n bytes and takes b.mu
WriteCall(n) ==
    /\ ~started
    /\ writePc = "idle"
    /\ srcPos + n <= MaxRingBytes
    /\ writeP' = Ptr(SourceBytes(n))
    /\ writePc' = "loop"
    /\ readLog' = Append(readLog, SourceBytes(n))
    /\ UNCHANGED <<srcPc, srcPos, pending, pendingErr, ring, sourceHealthy>>
    /\ UNCHANGED <<relaunched, reqPath, fetched>>
    /\ UNCHANGED mgrVars
    /\ UNCHANGED procVars
    /\ UNCHANGED <<stMetaInt, extraGo, unsubPc, started, cancelled, chunkBus, now, fanPc>>
    /\ UNCHANGED pollVars
    /\ UNCHANGED sessVars

\* a drop of half of the storage
RingDropHalf(b) ==
    LET size == RingCap(b)
        drop == size \div 2
        n0   == b.n - drop
    IN  IF size - b.n = 0
        THEN [buf |-> b.buf, w |-> (b.w + drop) % size, n |-> IF n0 < 0 THEN 0 ELSE n0]
        ELSE b

\* if space == 0 { drop := len(b.buf) / 4; ... }
RingDrop(b) ==
    LET size == RingCap(b)
        drop == size \div 4
        n0   == b.n - drop
    IN  IF size - b.n = 0
        THEN [buf |-> b.buf, w |-> (b.w + drop) % size, n |-> IF n0 < 0 THEN 0 ELSE n0]
        ELSE b

\* chunk := len(p), at most space
RingChunk(b, p) == Min(Len(p), RingCap(b) - b.n)

\* the two copies and b.n += chunk
RingStore(b, p) ==
    LET size  == RingCap(b)
        chunk == RingChunk(b, p)
        end   == (b.w + b.n) % size
        right == Min(size - end, chunk)
    IN  [buf |-> RingCopy(b.buf, end, right, chunk, p), w |-> b.w, n |-> b.n + chunk]

\* for len(p) > 0 { space := ...; if space == 0 { ... } }, or the return
WriteLoop ==
    /\ writePc = "loop"
    /\ IF Len(writeP[1]) > 0
       THEN /\ ring' = RingDrop(ring)
            /\ writePc' = "copy"
            /\ UNCHANGED writeP
       ELSE /\ writePc' = "idle"
            /\ writeP' = NULL
            /\ UNCHANGED ring
    /\ UNCHANGED <<srcPc, srcPos, readLog, pending, pendingErr, sourceHealthy>>
    /\ UNCHANGED <<relaunched, reqPath, fetched>>
    /\ UNCHANGED mgrVars
    /\ UNCHANGED procVars
    /\ UNCHANGED <<stMetaInt, extraGo, unsubPc, started, cancelled, chunkBus, now, fanPc>>
    /\ UNCHANGED pollVars
    /\ UNCHANGED sessVars

\* chunk := ...; copy(...); b.n += chunk; p = p[chunk:]
WriteCopy ==
    /\ writePc = "copy"
    /\ ring' = RingStore(ring, writeP[1])
    /\ writeP' = Ptr(SubSeq(writeP[1], RingChunk(ring, writeP[1]) + 1, Len(writeP[1])))
    /\ srcPos' = srcPos + RingChunk(ring, writeP[1])
    /\ writePc' = "loop"
    /\ UNCHANGED <<srcPc, readLog, pending, pendingErr, sourceHealthy>>
    /\ UNCHANGED <<relaunched, reqPath, fetched>>
    /\ UNCHANGED mgrVars
    /\ UNCHANGED procVars
    /\ UNCHANGED <<stMetaInt, extraGo, unsubPc, started, cancelled, chunkBus, now, fanPc>>
    /\ UNCHANGED pollVars
    /\ UNCHANGED sessVars


(***************************************************************************)
(* HTTPProvider.Fetch from the parsed document on: the substitution of the *)
(* placeholders and the two transformations.  A string is the sequence of  *)
(* its tokens: a placeholder with its braces, an apostrophe and a blank    *)
(* are one token each.  A JSON value is [str |-> tokens], [num |-> n],     *)
(* [bool |-> b] or [obj |-> map]; a map has the keys that are present.     *)
(***************************************************************************)
\* placeholders := []string{"artist", "title", "album", "year", "label"}
Placeholders == <<"artist", "title", "album", "year", "label">>

\* "{"+placeholder+"}"
PlaceholderToken ==
    [artist |-> "{artist}", title |-> "{title}", album |-> "{album}",
     year |-> "{year}", label |-> "{label}"]

\* placeholderMap, counted from 1
PlaceholderIndex == [artist |-> 1, title |-> 2, album |-> 3, year |-> 4, label |-> 5]

\* strings.ReplaceAll(s, old, new) for a token old
RECURSIVE ReplaceAll(_, _, _)
ReplaceAll(s, old, new) ==
    IF s = <<>> THEN <<>>
    ELSE (IF Head(s) = old THEN new ELSE <<Head(s)>>) \o ReplaceAll(Tail(s), old, new)

\* s without its leading blanks
RECURSIVE TrimLeft(_)
TrimLeft(s) == IF s # <<>> /\ Head(s) = " " THEN TrimLeft(Tail(s)) ELSE s

\* strings.Join(strings.Fields(s), " ") for an s that does not begin with a blank
RECURSIVE JoinFields(_)
JoinFields(s) ==
    LET t == TrimLeft(s)
    IN  IF t = <<>> THEN <<>>
        ELSE IF Head(s) = " " THEN <<" ">> \o JoinFields(t)
        ELSE <<Head(s)>> \o JoinFields(Tail(s))

IsStr(v) == DOMAIN v = {"str"}
IsObj(v) == DOMAIN v = {"obj"}

\* data[key].(string), or ""
getString(data, key) ==
    IF key \in DOMAIN data /\ IsStr(data[key]) THEN data[key].str ELSE <<>>

\* the loop over the parts of the path: the value reached, [nil |-> TRUE] for
\* a missing key, [notmap |-> TRUE] when a part is looked up in what is no map
RECURSIVE Descend(_, _)
Descend(current, parts) ==
    IF parts = <<>> THEN current
    ELSE IF IsObj(current)
         THEN Descend(IF Head(parts) \in DOMAIN current.obj
                      THEN current.obj[Head(parts)] ELSE [nil |-> TRUE],
                      Tail(parts))
         ELSE [notmap |-> TRUE]

\* path is the dotted path split at its dots
getNestedString(data, path) ==
    LET v == Descend([obj |-> data], path)
    IN  CASE IsStr(v) -> v.str
          [] DOMAIN v = {"num"} -> <<ToString(v.num)>>
          [] DOMAIN v = {"bool"} -> <<IF v.bool THEN "true" ELSE "false">>
          [] OTHER -> <<>>

extractValue(cfg, data, placeholder) ==
    LET order == cfg.FallbackKeyOrder
        idx   == PlaceholderIndex[placeholder]
    IN  IF Len(order) > 0 /\ idx <= Len(order) /\ getNestedString(data, order[idx]) # <<>>
        THEN getNestedString(data, order[idx])
        ELSE getString(data, placeholder)

\* for _, placeholder := range placeholders { ... }, from the i-th on
RECURSIVE ReplacePlaceholders(_, _, _, _)
ReplacePlaceholders(cfg, data, result, i) ==
    IF i > Len(Placeholders) THEN result
    ELSE ReplacePlaceholders(cfg, data,
             ReplaceAll(result, PlaceholderToken[Placeholders[i]],
                        extractValue(cfg, data, Placeholders[i])),
             i + 1)

\* the two transformations
Transform(cfg, result) ==
    LET stripped == IF cfg.StripSingleQuotes THEN ReplaceAll(result, "'", <<>>) ELSE result
    IN  IF cfg.NormalizeWhitespace THEN JoinFields(TrimLeft(stripped)) ELSE stripped

\* what Fetch returns for the document data
FetchText(cfg, data) == Transform(cfg, ReplacePlaceholders(cfg, data, cfg.Format, 1))

\* the templates of the configurations
Formats ==
    {<<"StreamTitle=", "'", "{artist}", " ", "-", " ", "{title}", "'", ";">>,
     <<"{artist}", " ", "-", " ", "{title}">>,
     <<"{title}", " ", "(", "{year}", ")">>}

\* the lists of dotted paths of the configurations
KeyOrders == {<<>>, <<<<"now", "artist">>, <<"now", "title">>>>, <<<<"artist">>, <<"title">>, <<"album">>, <<"year">>>>}

BuildConfigs ==
    [Format : Formats, StripSingleQuotes : BOOLEAN, NormalizeWhitespace : BOOLEAN,
     FallbackKeyOrder : KeyOrders]

\* the strings of the documents
FieldTexts == {<<"A">>, <<"{title}">>, <<"O", "'", "B">>, <<"A", " ", " ", "B">>}

NoKeys == [k \in {} |-> k]

Field(key, values) == {NoKeys} \cup {[k \in {key} |-> v] : v \in values}

\* the documents the metadata endpoint answers with
Documents ==
    {a @@ t @@ y @@ n :
        a \in Field("artist", {[str |-> x] : x \in FieldTexts}),
        t \in Field("title", {[str |-> <<"T">>], [str |-> <<>>]}),
        y \in Field("year", {[num |-> 1999]}),
        n \in Field("now", {[obj |-> [title |-> [str |-> <<"N">>]]], [str |-> <<"A">>]})}

\* text, err := provider.Fetch(ctx), the document received and parsed
CallFetch(cfg, data) ==
    /\ ~started
    /\ fetched = NULL
    /\ fetched' = Ptr([cfg |-> cfg, data |-> data, result |-> FetchText(cfg, data)])
    /\ UNCHANGED <<relaunched, writeP, writePc, reqPath>>
    /\ UNCHANGED mgrVars
    /\ UNCHANGED procVars
    /\ UNCHANGED <<stMetaInt, extraGo, unsubPc, started, cancelled, chunkBus, now, fanPc>>
    /\ UNCHANGED srcVars
    /\ UNCHANGED pollVars
    /\ UNCHANGED sessVars

(***************************************************************************)
(* The specification.                                                      *)
(***************************************************************************)
\* runSourceReader while s.ctx is not done
SourceReader ==
    \/ SourceConnectOK
    \/ SourceConnectFail
    \/ \E n \in 1..MaxRead, e \in ReadErrs : SourceRead(n, e)
    \/ \E e \in ReadErrs : SourceReadEnd(e)
    \/ SourceSend

\* the fetch runMetadataPoller makes when it starts
PollerStart ==
    \/ \E resp \in Responses : PollFirst(resp)
    \/ PollStamp

\* the poll ticker and the fetch at each tick
PollerTicks ==
    \/ Tick
    \/ \E resp \in Responses : PollTick(resp)

\* Shutdown and the three goroutines returning on s.ctx.Done()
Cancellation ==
    \/ Shutdown
    \/ \E viaRead \in BOOLEAN : SourceCancelled(viaRead)
    \/ PollCancelled
    \/ FanOutCancelled

\* a handler taking chunks from its mailbox and writing them
Reading(c) ==
    \/ SessionRecv(c)
    \/ SessionWrite(c)

\* a goroutine calling Unsubscribe, statement by statement
Detach(u) ==
    \/ \E c \in Clients : UnsubCall(u, c)
    \/ UnsubRemove(u)
    \/ UnsubCheck(u)
    \/ UnsubClose(u)
    \/ UnsubClear(u)

\* what a handler does when another goroutine has closed its channel
Detached(c) == SessionChannelClosed(c)

\* a request to the stream handler or to the meta handler
Request(c) ==
    \/ \E path \in Paths, icy \in IcyValues : StreamRequest(c, path, icy)
    \/ \E path \in Paths : MetaRequest(c, path)

\* a stream handler in its loop, until it returns
Serving(c) ==
    \/ Reading(c)
    \/ \E atBlock \in BOOLEAN : SessionWriteError(c, atBlock)
    \/ SessionDisconnect(c)

\* a request, and everything its handler can do
Listener(c) ==
    \/ \E icy \in IcyValues : Attach(c, icy)
    \/ Reading(c)
    \/ \E atBlock \in BOOLEAN : SessionWriteError(c, atBlock)
    \/ SessionDisconnect(c)

Next ==
    \/ Start
    \/ SourceReader
    \/ PollerStart
    \/ PollerTicks
    \/ FanOut
    \/ Cancellation
    \/ \E g \in Goroutines : ExtraReturns(g)
    \/ \E c \in Clients : Listener(c)
    \/ \E c \in Clients : Request(c)
    \/ \E u \in Callers : Detach(u)
    \/ \E c \in Clients : Detached(c)

Spec == Init /\ [][Next]_vars

(***************************************************************************)
(* The station under a restricted environment: the same actions, fewer of  *)
(* the events that come from outside.                                      *)
(***************************************************************************)
\* one listener, within the first poll interval; no shutdown
NextStream ==
    \/ StartOnce
    \/ SourceReader
    \/ PollerStart
    \/ FanOut
    \/ Listener("c1")

SpecStream == Init /\ [][NextStream]_vars

\* a station whose icy.metaint is the largest of the model
InitMax == Init /\ stMetaInt = MaxMetaInt

\* two listeners, of which c1 never reads: its handler is blocked for good
\* once it has subscribed; no tick of the poll ticker; no shutdown;
\* an upstream of SlowSrcBytes bytes
NextSlow ==
    \/ StartOnce
    \/ SourceReader /\ srcPos' <= SlowSrcBytes
    \/ PollerStart
    \/ FanOut
    \/ \E c \in Clients, icy \in IcyValues : Attach(c, icy)
    \/ Reading("c2")

SpecSlow == InitMax /\ [][NextSlow]_vars

\* the goroutines of the station and the listener that reads are scheduled
\* whenever they can take a step; nothing is assumed of c1
FairSlow ==
    /\ SpecSlow
    /\ WF_vars(SourceSend)
    /\ WF_vars(FanOut)
    /\ WF_vars(PollerStart)
    /\ WF_vars(Reading("c2"))

\* the poller alone, with the clock and Shutdown
NextPoll ==
    \/ StartOnce
    \/ Shutdown
    \/ PollerStart
    \/ PollerTicks
    \/ PollCancelled

SpecPoll == InitMax /\ [][NextPoll]_vars

\* the poller's goroutine is scheduled whenever it can take a step
FairPoll ==
    /\ SpecPoll
    /\ WF_vars(PollerStart)
    /\ WF_vars(\E resp \in Responses : PollTick(resp))
    /\ WF_vars(PollCancelled)

\* Start called any number of times, and Shutdown; no listener
NextStart ==
    \/ Start
    \/ \E g \in Goroutines : ExtraReturns(g)
    \/ SourceReader
    \/ PollerStart
    \/ FanOut
    \/ Cancellation

SpecStart == Init /\ [][NextStart]_vars

\* a station that is shut down while a listener that never disconnects, and
\* whose writes never fail, is or gets attached; no tick of the poll ticker
NextShutdown ==
    \/ StartOnce
    \/ SourceReader
    \/ PollerStart
    \/ FanOut
    \/ Cancellation
    \/ \E icy \in IcyValues : Attach("c1", icy)
    \/ Reading("c1")

SpecShutdown == InitMax /\ [][NextShutdown]_vars

\* the goroutines and the handler are scheduled whenever they can take a step
FairShutdown ==
    /\ SpecShutdown
    /\ WF_vars(SourceSend)
    /\ WF_vars(FanOut)
    /\ WF_vars(PollerStart)
    /\ WF_vars(Reading("c1"))
    /\ WF_vars(\E viaRead \in BOOLEAN : SourceCancelled(viaRead))
    /\ WF_vars(PollCancelled)
    /\ WF_vars(FanOutCancelled)

\* clients subscribed by stream requests and unsubscribed by other goroutines;
\* the station as created, so that the handlers wait in their select
NextDetach ==
    \/ \E c \in Clients, icy \in IcyValues : Attach(c, icy)
    \/ \E u \in Callers : Detach(u)
    \/ \E c \in Clients : Detached(c)

SpecDetach == InitMax /\ [][NextDetach]_vars

\* two connections making requests of any path, their handlers running to
\* their end; an upstream of SlowSrcBytes bytes; no poller step, no shutdown
NextSessions ==
    \/ StartOnce
    \/ SourceReader /\ srcPos' <= SlowSrcBytes
    \/ FanOut
    \/ \E c \in Clients : Request(c)
    \/ \E c \in Clients : Serving(c)

SpecSessions == InitMax /\ [][NextSessions]_vars

\* the encoder alone
NextCodec == \E n \in TextLens : CallBuildBlock("c1", TextOfLen(n))

SpecCodec == InitMax /\ [][NextCodec]_vars

\* the ring buffer alone
NextRing ==
    \/ \E size \in RingSizes : NewBuffer(size)
    \/ \E n \in 1..MaxRingBytes : BufferWrite(n)

SpecRing == InitMax /\ [][NextRing]_vars

\* the poller updating the cell while meta requests read it; no shutdown
NextCell ==
    \/ StartOnce
    \/ PollerStart
    \/ PollerTicks
    \/ \E c \in Clients : MetaFound(c)

SpecCell == InitMax /\ [][NextCell]_vars

\* the process from mgr.Start to its exit, with one listener that attaches
\* while the server listens and may or may not go away; no tick
NextSignal ==
    \/ StartOnce
    \/ \E icy \in IcyValues : Accept("c1", icy)
    \/ Signal
    \/ DrainDone
    \/ DrainTimeout
    \/ Alive /\ SourceReader /\ srcPos' <= SlowSrcBytes
    \/ Alive /\ PollerStart
    \/ Alive /\ FanOut
    \/ Alive /\ Reading("c1")
    \/ Alive /\ SessionDisconnect("c1")

SpecSignal == InitMax /\ [][NextSignal]_vars

\* the stations of a manager, each with one listener
NextManager ==
    \/ \E cfg \in Configs : NewFromConfig(cfg)
    \/ \E id \in StationIds :
          \/ StationStart(id)
          \/ \E ok \in BOOLEAN : StationSource(id, ok)
          \/ StationChunk(id)
          \/ \E ok \in BOOLEAN : StationMeta(id, ok)
          \/ StationDispatch(id)
          \/ StationAttach(id, "c1")
          \/ StationDetach(id, "c1")
          \/ StationShutdown(id)
          \/ StationStopped(id)

SpecManager == InitMax /\ [][NextManager]_vars

\* the responses of a metadata endpoint that answers every request with the
\* status 500, whatever the body
Status500 == {resp \in Responses : ~resp.neterr /\ resp.status = 500}

\* the poller, the clock and Shutdown, the endpoint answering 500 every time
NextDown ==
    \/ StartOnce
    \/ Shutdown
    \/ \E resp \in Status500 : PollFirst(resp)
    \/ PollStamp
    \/ Tick
    \/ \E resp \in Status500 : PollTick(resp)
    \/ PollCancelled

SpecDown == InitMax /\ [][NextDown]_vars

\* the three goroutines and Shutdown; no listener, no tick
NextCancel ==
    \/ StartOnce
    \/ SourceReader
    \/ PollerStart
    \/ FanOut
    \/ Cancellation

SpecCancel == InitMax /\ [][NextCancel]_vars

\* Connect returns; a goroutine that can take a step is scheduled; a
\* goroutine that waits in a select takes the case of s.ctx.Done() once the
\* context is done.  Nothing is assumed of the upstream's reads.
FairCancel ==
    /\ SpecCancel
    /\ WF_vars(SourceConnectOK \/ SourceConnectFail)
    /\ WF_vars(PollerStart)
    /\ WF_vars(\E viaRead \in BOOLEAN : SourceCancelled(viaRead))
    /\ WF_vars(PollCancelled)
    /\ WF_vars(FanOutCancelled)

\* two listeners of the stream, their handlers running to their end; an
\* upstream of CounterSrcBytes bytes; no poller step, no shutdown
NextCounters ==
    \/ StartOnce
    \/ SourceReader /\ srcPos' <= CounterSrcBytes
    \/ FanOut
    \/ \E c \in Clients, icy \in IcyValues : Attach(c, icy)
    \/ \E c \in Clients : Serving(c)

SpecCounters == InitMax /\ [][NextCounters]_vars

\* a station that is shut down and, once its goroutines have returned,
\* started again, with a listener that stays; an upstream of SlowSrcBytes
\* bytes; no tick
NextRestart ==
    \/ StartOnce
    \/ SourceReader /\ srcPos' <= SlowSrcBytes
    \/ PollerStart
    \/ FanOut
    \/ Cancellation
    \/ StartAgain
    \/ \E icy \in IcyValues : Attach("c1", icy)
    \/ Reading("c1")

SpecRestart == InitMax /\ [][NextRestart]_vars


\* the mux answering one request on each connection
NextRoutes == \E c \in Clients, path \in MuxPaths : ServeMux(c, path)

SpecRoutes == InitMax /\ [][NextRoutes]_vars


\* a buffer of any capacity from 1, written by calls that each run to their return
AnyRingSizes == 1..MaxRingSize

NextWriteAny ==
    \/ \E size \in AnyRingSizes : NewBuffer(size)
    \/ \E n \in 1..MaxRingBytes : WriteCall(n)
    \/ WriteLoop
    \/ WriteCopy

SpecWriteAny == InitMax /\ [][NextWriteAny]_vars

\* the goroutine inside Write is scheduled again and again
FairWriteAny == SpecWriteAny /\ WF_vars(WriteLoop) /\ WF_vars(WriteCopy)

\* the same calls on the buffers whose capacity is at least 4
NextWrite ==
    \/ \E size \in RingSizes : NewBuffer(size)
    \/ \E n \in 1..MaxRingBytes : WriteCall(n)
    \/ WriteLoop
    \/ WriteCopy

SpecWrite == InitMax /\ [][NextWrite]_vars


\* the provider fetching one document
NextFetch == \E cfg \in BuildConfigs, data \in Documents : CallFetch(cfg, data)

SpecFetch == InitMax /\ [][NextFetch]_vars

(***************************************************************************)
(* What a response body holds.                                             *)
(***************************************************************************)
IcyAt(b) == {i \in 1..Len(b) : b[i].kind = "icy"}

\* the last ICY block before entry i (0 when there is none)
PrevIcy(b, i) ==
    LET before == {j \in IcyAt(b) : j < i}
    IN  IF before = {} THEN 0 ELSE CHOOSE j \in before : \A k \in before : k <= j

\* the audio bytes written by the entries lo+1 .. hi-1 of b
RECURSIVE AudioLen(_, _, _)
AudioLen(b, lo, hi) ==
    IF lo + 1 >= hi THEN 0
    ELSE (IF b[lo + 1].kind = "audio" THEN Len(b[lo + 1].data) ELSE 0)
         + AudioLen(b, lo + 1, hi)

\* the audio bytes of b, in the order written
RECURSIVE Payload(_)
Payload(b) ==
    IF b = <<>> THEN <<>>
    ELSE (IF Head(b).kind = "audio" THEN Head(b).data ELSE <<>>) \o Payload(Tail(b))

\* the audio bytes written after the last ICY block
Trailing(b) == AudioLen(b, PrevIcy(b, Len(b) + 1), Len(b) + 1)

(***************************************************************************)
(* C1: in the body of every session that negotiated ICY metadata, exactly  *)
(* MetaInt audio bytes are written before the first ICY block and between  *)
(* any two consecutive ICY blocks; the audio written after the last block  *)
(* never exceeds MetaInt, and reaches it only when the write of the block  *)
(* that is due has failed and the session is over.                         *)
(***************************************************************************)
C1_ExactInterval ==
    \A c \in Clients :
        reqIcy[c] = "1" =>
            /\ \A i \in IcyAt(body[c]) :
                   AudioLen(body[c], PrevIcy(body[c], i), i) = MetaInt
            /\ Trailing(body[c]) <= MetaInt
            /\ Trailing(body[c]) = MetaInt => sessPc[c] = "done"

\* a session with two ICY blocks, with an interval made of more than one write
C1_Witness ==
    \E c \in Clients :
        /\ reqIcy[c] = "1"
        /\ Cardinality(IcyAt(body[c])) >= 2
        /\ MetaInt = 2
        /\ \E i \in 1..Len(body[c]) :
               body[c][i].kind = "audio" /\ Len(body[c][i].data) < MetaInt

HasMetaInt(c) == \E h \in headers[c] : h[1] = "icy-metaint"

WritesBlock(c) == Cardinality(IcyAt(body'[c])) > Cardinality(IcyAt(body[c]))

C2_BlockEncodesCell ==
    [][\A c \in Clients :
          WritesBlock(c) =>
              body'[c][Len(body'[c])].data = BuildBlock(CurrentMetadata)]_vars

(***************************************************************************)
(* C6: unless the station is shut down the source reader never gives up:   *)
(* after a failed connect or the end of the upstream it is connecting or   *)
(* reading again, it has not returned.                                     *)
(***************************************************************************)
C6_ReaderRetries == srcPc = "done" => cancelled

(***************************************************************************)
(* C7: a step by which the reader stops reading its upstream (a read error *)
(* or EOF, with or without a last chunk) leaves sourceHealthy false.       *)
(***************************************************************************)
C7_UnhealthyAfterReadEnds ==
    [][(srcPc \in {"loop", "send"} /\ srcPc' = "done" /\ ~cancelled)
           => ~SourceHealthy']_vars

(***************************************************************************)
(* C8: a step by which the source reader fails to connect or stops reading *)
(* leaves the set of clients, every mailbox and every client channel as    *)
(* they were; and whatever is queued for, taken by or written to a         *)
(* listener is bytes read from the upstream, in the order read.            *)
(***************************************************************************)
RECURSIVE Flatten(_)
Flatten(q) == IF q = <<>> THEN <<>> ELSE Head(q) \o Flatten(Tail(q))

\* q is made of bytes the reader has read, in increasing position
FromUpstream(q) ==
    /\ \A i \in 1..Len(q) : q[i] \in 1..srcPos
    /\ \A i \in 1..Len(q) - 1 : q[i] < q[i + 1]

ReaderEnds == srcPc \in {"connect", "loop", "send"} /\ srcPc' = "done"

C8_SourceFailureIsolated ==
    [][/\ ReaderEnds => UNCHANGED <<clients, mailbox, chState, sessPc>>
       /\ \A c \in Clients :
              /\ FromUpstream(taken[c] \o Flatten(mailbox[c]))'
              /\ FromUpstream(Payload(body[c]) \o cur[c])']_vars

\* the reader has returned on an upstream failure and a listener is still
\* attached, with a chunk queued
C8_Witness ==
    /\ srcPc = "done"
    /\ ~cancelled
    /\ "c1" \in clients
    /\ chState["c1"] = "open"
    /\ mailbox["c1"] # <<>>
    /\ taken["c1"] # <<>>

(***************************************************************************)
(* C5: with a listener that never reads (c1 in SpecSlow), under fair       *)
(* scheduling of the goroutines: the source reader's send to the bus       *)
(* completes, the dispatcher takes every chunk off the bus and hands it to *)
(* every client whose mailbox has room, the poller completes its fetch,    *)
(* and the listener that reads gets its chunks written and its mailbox     *)
(* drained.                                                                *)
(***************************************************************************)
Dispatches == chunkBus # <<>> /\ chunkBus' = Tail(chunkBus)

C5_SlowListenerHarmless ==
    /\ (srcPc = "send") ~> (srcPc # "send")
    /\ (Len(chunkBus) = ChunkBusCap) ~> (Len(chunkBus) < ChunkBusCap)
    /\ (pollPc = "first") ~> (pollPc = "wait")
    /\ (sessPc["c2"] = "write") ~> (sessPc["c2"] = "select")
    /\ (Len(mailbox["c2"]) = MailboxCap) ~> (Len(mailbox["c2"]) < MailboxCap)
    /\ [][Dispatches =>
             \A c \in clients :
                 Len(mailbox[c]) < MailboxCap
                     => mailbox'[c] = Append(mailbox[c], Head(chunkBus))]_vars

\* c1's mailbox is full and has been for a while: the other listener has
\* taken a chunk read after everything queued for c1
C5_Witness ==
    /\ {"c1", "c2"} \subseteq clients
    /\ Len(mailbox["c1"]) = MailboxCap
    /\ taken["c2"] # <<>>
    /\ \A i \in 1..Len(Flatten(mailbox["c1"])) :
           Flatten(mailbox["c1"])[i] < taken["c2"][Len(taken["c2"])]
    /\ pollPc = "wait"

(***************************************************************************)
(* C9: once the metadata cell is older than the stale TTL and the poller   *)
(* has made its fetch for the latest tick without refreshing it, the cell  *)
(* is empty.                                                               *)
(***************************************************************************)
C9_StaleCellEmptied ==
    (/\ pollPc = "wait"
     /\ ~tickPending
     /\ LastMetadataUpdate # NULL
     /\ now - LastMetadataUpdate[1] > StaleTTL)
        => CurrentMetadata = <<>>

(***************************************************************************)
(* C10: the poller leaves its starting position by a fetch that takes no   *)
(* tick, and it does so whether or not the clock advances; a fetch that    *)
(* succeeds publishes its text and then its time; every tick that reaches  *)
(* the waiting poller is taken, by a fetch or by the poller's return on    *)
(* cancellation.                                                           *)
(***************************************************************************)
\* the step from position pc is a fetch: its text published, or nothing changed
IsFetch(pc) ==
    /\ pollPc = pc
    /\ \E resp \in Responses :
           IF Fetch(resp).ok
           THEN CurrentMetadata' = resp.text /\ pollPc' = "stamp"
           ELSE currentMeta' = currentMeta /\ pollPc' = "wait"

C10_PollerFetches ==
    /\ (pollPc = "first") ~> (pollPc \in {"stamp", "wait"})
    /\ (pollPc = "stamp") ~> (pollPc = "wait" /\ LastMetadataUpdate # NULL)
    /\ (pollPc = "wait" /\ tickPending) ~> (~tickPending \/ pollPc = "done")
    /\ [][(pollPc = "first" /\ pollPc' # "first")
              => IsFetch("first") /\ tickPending' = tickPending /\ now' = now]_vars
    /\ [][(pollPc = "wait" /\ tickPending /\ ~tickPending') => IsFetch("wait")]_vars
    /\ [][(pollPc = "stamp" /\ pollPc' # "stamp")
              => LastMetadataUpdate' = Ptr(now) /\ currentMeta' = currentMeta]_vars

\* the first fetch has published a title before any tick, and a later tick
\* has been answered by a fetch that failed
C10_Witness ==
    /\ pollPc = "wait"
    /\ CurrentMetadata = TitleA
    /\ LastMetadataUpdate = Ptr(0)
    /\ now > 0
    /\ ~tickPending
    /\ ~cancelled

(***************************************************************************)
(* C11: however many times Start is called, at most one source reader, one *)
(* metadata poller and one dispatcher of the station are running.          *)
(***************************************************************************)
\* the goroutines of each kind that have been launched and have not returned
Running ==
    [g \in Goroutines |->
        extraGo[g]
        + (CASE g = "reader" -> IF srcPc \in {"connect", "loop", "send"} THEN 1 ELSE 0
             [] g = "poller" -> IF pollPc \in {"first", "stamp", "wait"} THEN 1 ELSE 0
             [] g = "dispatcher" -> IF fanPc = "run" THEN 1 ELSE 0)]

C11_StartIdempotent == \A g \in Goroutines : Running[g] <= 1

(***************************************************************************)
(* C12: once the station is shut down, every handler still attached        *)
(* returns and the station's set of clients becomes empty, without any     *)
(* listener disconnecting.                                                 *)
(***************************************************************************)
C12_ShutdownDrainsSessions ==
    cancelled ~> (clients = {} /\ \A c \in Clients : sessPc[c] \in {"idle", "done"})

(***************************************************************************)
(* C13: Unsubscribe may be called any number of times on a client, one     *)
(* call after another or several at once: no call panics (so the channel   *)
(* is closed at most once), and when a call has returned the client is not *)
(* in the station's set.                                                   *)
(***************************************************************************)
C13_DetachRepeatable ==
    \A u \in Callers :
        /\ unsubPc[u].pc # "panic"
        /\ sessPc[unsubPc[u].c] # "panic"
        /\ unsubPc[u].pc = "done" => unsubPc[u].c \notin clients

(***************************************************************************)
(* C14: a request /{id}/stream or /{id}/meta whose id is not in the        *)
(* registry is answered with 404; the step changes nothing of the station  *)
(* (its clients, their channels, the bus, the reader's and the poller's    *)
(* state), and none of the stream headers is sent.                         *)
(***************************************************************************)
StreamHeaderNames == {"icy-name", "icy-br", "icy-metaint", "Cache-Control", "Connection"}

\* the response of c is a 404 that subscribed nobody and announced no stream
Refused(c) ==
    /\ status[c] = 404
    /\ c \notin clients
    /\ chState[c] = "nil"
    /\ \A h \in headers[c] : h[1] \notin StreamHeaderNames /\ h[2] # "audio/mpeg"

C14_UnknownStation404 ==
    [][\A c \in Clients, path \in Paths :
          (/\ Len(path) = 2
           /\ path[1] \notin Stations
           /\ \/ path[2] = "stream" /\ \E icy \in IcyValues : StreamRequest(c, path, icy)
              \/ path[2] = "meta" /\ MetaRequest(c, path))
              => /\ Refused(c)'
                 /\ UNCHANGED <<clients, mailbox, chState, chunkBus, started, cancelled>>
                 /\ UNCHANGED srcVars
                 /\ UNCHANGED pollVars]_vars

\* a request for an unknown station has been refused while the station is
\* streaming to a listener
C14_Witness ==
    /\ sessPc["c1"] = "nostation"
    /\ Refused("c1")
    /\ clients = {"c2"}
    /\ taken["c2"] # <<>>

(***************************************************************************)
(* C15: the station's set of clients is at every moment the set of stream  *)
(* handlers that have subscribed and not returned, ClientCount its size;   *)
(* and a step by which one handler returns leaves the other handlers where *)
(* they are and their clients in the set.                                  *)
(***************************************************************************)
Attached == {c \in Clients : sessPc[c] \in {"select", "write"}}

C15_SessionSetExact ==
    [][/\ clients' = Attached'
       /\ ClientCount' = Cardinality(Attached')
       /\ \A c \in Clients :
              (c \in clients /\ c \notin clients')
                  => /\ sessPc'[c] = "done"
                     /\ \A d \in Clients \ {c} :
                            /\ sessPc'[d] = sessPc[d]
                            /\ d \in clients <=> d \in clients'
                            /\ chState'[d] = chState[d]
                            /\ mailbox'[d] = mailbox[d]]_vars

\* one handler has returned on a failed write while the other is attached
\* and has been served since
C15_Witness ==
    /\ sessPc["c1"] = "done"
    /\ status["c1"] = 200
    /\ chState["c1"] = "closed"
    /\ clients = {"c2"}
    /\ taken["c2"] # <<>>
    /\ taken["c1"] # <<>>
    /\ Len(taken["c2"]) > Len(taken["c1"])

(***************************************************************************)
(* C16: what a session has taken from its mailbox is made of whole chunks  *)
(* of those the source reader read, each at most once and in the order     *)
(* read, so that whatever is missing is whole chunks; and what it has      *)
(* written is that sequence of bytes up to the point the handler has       *)
(* reached in the chunk in hand.                                           *)
(***************************************************************************)
Bytes(q) == {q[i] : i \in 1..Len(q)}

\* the chunks of the read log that are in q: all their bytes are
InOrderWholeChunks(q) ==
    /\ \A i \in 1..Len(q) - 1 : q[i] < q[i + 1]
    /\ \A k \in 1..Len(readLog) :
           Bytes(readLog[k]) \subseteq Bytes(q) \/ Bytes(readLog[k]) \cap Bytes(q) = {}
    /\ Bytes(q) \subseteq UNION {Bytes(readLog[k]) : k \in 1..Len(readLog)}

CeilDiv(a, b) == IF a % b = 0 THEN a \div b ELSE (a \div b) + 1

Encodes(P, out) ==
    LET m == IF Len(P) < 4080 THEN Len(P) ELSE 4080
        B == CeilDiv(m, 16)
    IN  IF P = <<>> THEN out = <<0>>
        ELSE /\ B <= 255
             /\ Len(out) = 1 + 16 * B
             /\ out[1] = B
             /\ \A i \in 1..m : out[1 + i] = P[i]
             /\ \A i \in (m + 1)..(16 * B) : out[1 + i] = 0

C17_BlockLayout ==
    \A c \in Clients :
        sessPc[c] = "encoded" => Encodes(cur[c], body[c][1].data)

\* a text longer than the largest payload has been encoded
C17_Witness ==
    /\ sessPc["c1"] = "encoded"
    /\ Len(cur["c1"]) > 4080
    /\ Len(body["c1"][1].data) = 4081

(***************************************************************************)
(* C18: after any Writes, of any lengths, the number of bytes a ring       *)
(* buffer holds is at least 0 and at most its capacity (and its read       *)
(* cursor is within the storage).                                          *)
(***************************************************************************)
C18_SizeWithinCapacity ==
    /\ ring.n >= 0
    /\ ring.n <= RingCap(ring)
    /\ ring.w \in 0..(RingCap(ring) - 1)

\* a Write longer than the capacity has been made, after another Write, and
\* has left the buffer less than full
C18_Witness ==
    /\ Len(readLog) >= 2
    /\ Len(readLog[Len(readLog)]) > RingCap(ring)
    /\ ring.n < RingCap(ring)

(***************************************************************************)
(* C19: Snapshot is the last ring.n of the bytes written so far, oldest    *)
(* first, wherever the cursors are in the storage.                         *)
(***************************************************************************)
\* the last k of the bytes written
LastWritten(k) == [i \in 1..k |-> srcPos - k + i]

C19_SnapshotIsSuffix ==
    /\ Len(Snapshot(ring)) = ring.n
    /\ ring.n <= srcPos
    /\ Snapshot(ring) = LastWritten(ring.n)

\* the bytes held wrap around the end of the storage, the oldest not at its
\* start
C19_Witness ==
    /\ ring.w > 0
    /\ ring.w + ring.n > RingCap(ring)
    /\ Len(readLog) >= 2

(***************************************************************************)
(* C20: after one Write of more than capacity bytes into an empty buffer,  *)
(* the buffer holds the last capacity bytes of what was written.           *)
(***************************************************************************)
C20_OversizedWriteKeepsCapacity ==
    (Len(readLog) = 1 /\ Len(readLog[1]) > RingCap(ring))
        => /\ ring.n = RingCap(ring)
           /\ Snapshot(ring) = LastWritten(RingCap(ring))

(***************************************************************************)
(* C21: a read of the current-metadata cell returns the empty string when  *)
(* nothing has been published and otherwise the whole string of the latest *)
(* update stored, never part of a string and never an older one; what a    *)
(* meta response has reported is the empty string or a whole string that   *)
(* was passed to UpdateMetadata.                                           *)
(***************************************************************************)
\* the string a meta response reported
Reported(c) == body[c][1].data.current

C21_WholeLatestString ==
    /\ CurrentMetadata = IF published = <<>> THEN <<>> ELSE published[Len(published)]
    /\ \A c \in Clients :
          (sessPc[c] = "done" /\ status[c] = 200 /\ body[c] # <<>>)
              => \/ Reported(c) = <<>>
                 \/ \E i \in 1..Len(published) : Reported(c) = published[i]

\* a meta response reported a string that an update has since replaced
C21_Witness ==
    \E c \in Clients :
        /\ sessPc[c] = "done" /\ status[c] = 200 /\ body[c] # <<>>
        /\ Reported(c) # <<>>
        /\ Reported(c) # CurrentMetadata
        /\ Len(published) >= 2

(***************************************************************************)
(* C22: when the process has exited after SIGINT or SIGTERM, its exit code *)
(* is 0 and the supervisor of the station has been cancelled, whether or   *)
(* not a listener was attached when the signal came.                       *)
(***************************************************************************)
C22_SignalExitsClean ==
    mainPc = "exit" => (exitCode = Ptr(0) /\ cancelled)

(***************************************************************************)
(* C23: a step of one station (source failure, metadata fetch, dispatch,   *)
(* attach, detach, shutdown, its goroutines returning) changes the ring    *)
(* buffer, metadata cell, health flag, bus, session set, context and       *)
(* activities of no other station: at most one station changes in a step.  *)
(***************************************************************************)
\* what a station holds
StationState(id) ==
    [ring |-> Obj(id, "buffer"), cell |-> Obj(id, "cell"), healthy |-> Obj(id, "healthy"),
     bus |-> Obj(id, "bus"), clients |-> Obj(id, "clients"), ctx |-> Obj(id, "ctx"),
     acts |-> Obj(id, "acts")]

C23_StationsIsolated ==
    [][stations' = stations =>
          \A a, b \in DOMAIN stations :
              (StationState(a)' # StationState(a) /\ StationState(b)' # StationState(b))
                  => a = b]_vars

\* one station has lost its source and has been shut down, its activities
\* over, while the other is healthy, holds a chunk and has its listener
C23_Witness ==
    \E a, b \in DOMAIN stations :
        /\ a # b
        /\ ~StationState(a).healthy
        /\ StationState(a).ctx
        /\ StationState(a).acts = [started |-> TRUE, running |-> {}]
        /\ StationState(b).healthy
        /\ StationState(b).ring.n > 0
        /\ StationState(b).clients = {"c1"}
        /\ StationState(b).acts.running = Goroutines
        /\ ~StationState(b).ctx

(***************************************************************************)
(* C24: for a session that asked for metadata (M >= 1), bytesUntilMeta is  *)
(* within 0..M after every write and within 1..M whenever the handler is   *)
(* about to process a piece of a chunk or waits for the next chunk; every  *)
(* turn of the write loop shortens what is left of the chunk; and the      *)
(* counter of a session changes only in a step in which that session's     *)
(* handler writes to its response.                                         *)
(***************************************************************************)
C24_CounterWithinInterval ==
    [][\A c \in Clients :
          /\ (wantsMetadata'[c] /\ sessPc'[c] # "idle")
                => (0 <= bytesUntilMeta'[c] /\ bytesUntilMeta'[c] <= metaInt'[c])
          /\ (wantsMetadata'[c] /\ sessPc'[c] \in {"select", "write"})
                => (metaInt'[c] >= 1 /\ bytesUntilMeta'[c] >= 1)
          /\ (sessPc[c] = "write" /\ Len(body'[c]) > Len(body[c]))
                => Len(cur'[c]) < Len(cur[c])
          /\ (sessPc[c] # "idle" /\ bytesUntilMeta'[c] # bytesUntilMeta[c])
                => (sessPc[c] = "write" /\ Len(body'[c]) > Len(body[c]))]_vars

\* one session has just written a block in the middle of a chunk, its counter
\* back at M, while the counter of the other is part of the way down
C24_Witness ==
    \E c, d \in Clients :
        /\ c # d
        /\ wantsMetadata[c] /\ wantsMetadata[d]
        /\ sessPc[c] = "write"
        /\ bytesUntilMeta[c] = metaInt[c]
        /\ \E i \in 1..Len(body[c]) : body[c][i].kind = "icy"
        /\ sessPc[d] \in {"select", "write"}
        /\ bytesUntilMeta[d] >= 1
        /\ bytesUntilMeta[d] < metaInt[d]

(***************************************************************************)
(* C25: the source reader never waits for room in the bus: whenever it has *)
(* a chunk to submit it can complete the submission at once, the bus being *)
(* full or not.                                                            *)
(***************************************************************************)
C25_ReaderNeverWaits ==
    srcPc = "send" => ENABLED SourceSend

(***************************************************************************)
(* C26: a fetch that fails leaves the metadata cell and its timestamp as   *)
(* they were and leaves the poller waiting for the next tick, which it     *)
(* answers with another fetch unless the station is shut down.             *)
(***************************************************************************)
\* the step is a fetch of the poller that returned an error
FetchFailed ==
    /\ pollPc \in {"first", "wait"}
    /\ pollPc' = "wait"
    /\ pollPc = "wait" => (tickPending /\ ~tickPending')

C26_FailedFetchKeepsCell ==
    /\ [][FetchFailed => /\ currentMeta' = currentMeta
                         /\ lastMetaAt' = lastMetaAt
                         /\ published' = published]_vars
    /\ (pollPc = "wait" /\ tickPending /\ ~cancelled) ~> (~tickPending \/ cancelled)

\* a title published at the start is still in the cell, with its time, after
\* the fetches of two ticks have failed
C26_Witness ==
    /\ pollPc = "wait"
    /\ published = <<TitleA>>
    /\ CurrentMetadata = TitleA
    /\ LastMetadataUpdate = Ptr(0)
    /\ now >= 2
    /\ ~tickPending
    /\ ~cancelled

(***************************************************************************)
(* C27: the timestamp of the metadata cell changes only when the text      *)
(* published differs from the text published before it: a fetch that       *)
(* returns the string the cell already holds leaves the timestamp alone.   *)
(***************************************************************************)
C27_EqualTextKeepsStamp ==
    [][lastMetaAt' # lastMetaAt
          => \/ Len(published) = 1
             \/ /\ Len(published) > 1
                /\ published[Len(published)] # published[Len(published) - 1]]_vars

(***************************************************************************)
(* C28: a response of the metadata endpoint with the status 500 is a       *)
(* failed fetch whatever its body: while the endpoint answers 500 nothing  *)
(* is published and the cell stays as it was created.                      *)
(***************************************************************************)
C28_ErrorStatusNotPublished ==
    published = <<>> /\ currentMeta = NULL

(***************************************************************************)
(* C29: once Shutdown has been called on a started station, the source     *)
(* reader, the poller and the dispatcher all return, wherever they were    *)
(* (connecting, reading, waiting for room in the bus, waiting for a tick); *)
(* and after Shutdown the reader starts no further read: the upstream      *)
(* position and the ring buffer stay as they are.                          *)
(***************************************************************************)
AllReturned == srcPc = "done" /\ pollPc = "done" /\ fanPc = "done"

C30_ShutdownWaits ==
    cancelled => /\ srcPc \notin {"connect", "loop", "send"}
                 /\ pollPc \notin {"first", "stamp", "wait"}
                 /\ fanPc # "run"

(***************************************************************************)
(* C31: once a station has been shut down and its goroutines have          *)
(* returned, a later Start does not bring it back: from then on nothing is *)
(* read from the upstream, no metadata is published and no chunk is        *)
(* delivered to a session.                                                 *)
(***************************************************************************)
C31_StoppedIsTerminal ==
    [][(relaunched /\ cancelled)
          => /\ srcPos' = srcPos
             /\ ring' = ring
             /\ published' = published
             /\ \A c \in Clients : Len(mailbox'[c]) <= Len(mailbox[c])]_vars


\* the paths /stations, /healthz, /{id}/stream and /{id}/meta
IsEndpoint(path) ==
    \/ path \in {StationsPath, HealthzPath}
    \/ /\ Len(PathParts(path)) = 2
       /\ PathParts(path)[2] \in {Tail(StreamSuffix), Tail(MetaSuffix)}

(***************************************************************************)
(* C32: every request path other than /stations, /healthz, /{id}/stream    *)
(* and /{id}/meta is answered with 404 and handled without a fault,        *)
(* whatever its length, paths shorter than "/stream" and "/meta" included. *)
(***************************************************************************)
C32_OtherPathsNotFound ==
    \A c \in Clients :
        (reqPath[c] # NULL /\ ~IsEndpoint(reqPath[c])) =>
            (sessPc[c] # "panic" /\ status[c] = 404)


(***************************************************************************)
(* C33: whatever the capacity (1 or more) and whatever the bytes given, a  *)
(* Write that was called returns after finitely many turns of its loop,    *)
(* also when the buffer was full at the call.                              *)
(***************************************************************************)
C33_WriteReturns == (writePc # "idle") ~> (writePc = "idle")


(***************************************************************************)
(* C34: for a capacity of 4 or more, once capacity bytes in all have been  *)
(* written, a Snapshot taken between Writes holds at least three quarters  *)
(* of the capacity and at most the capacity, and what it holds are the     *)
(* bytes written last; and each time the buffer overflows, one step        *)
(* discards exactly capacity/4 (rounded down) of the oldest bytes.         *)
(***************************************************************************)
C34_OverflowKeepsNewest ==
    /\ []((writePc = "idle" /\ srcPos >= RingCap(ring)) =>
            /\ 4 * Len(Snapshot(ring)) >= 3 * RingCap(ring)
            /\ Len(Snapshot(ring)) <= RingCap(ring)
            /\ Snapshot(ring) = LastWritten(Len(Snapshot(ring))))
    /\ [][ring'.n < ring.n =>
            /\ ring.n = RingCap(ring)
            /\ ring'.n = ring.n - (RingCap(ring) \div 4)
            /\ Snapshot(ring') = SubSeq(Snapshot(ring), (RingCap(ring) \div 4) + 1, ring.n)]_vars

\* a Write has returned after the buffer overflowed and left it short of full
C34_Witness ==
    /\ writePc = "idle"
    /\ srcPos > RingCap(ring)
    /\ ring.w > 0
    /\ ring.n < RingCap(ring)
    /\ 4 * ring.n >= 3 * RingCap(ring)


(***************************************************************************)
(* C35: each chunk the dispatcher takes from the bus is offered once to    *)
(* every session attached at that moment: it is appended to each mailbox   *)
(* that has room, and dropped for exactly the sessions whose mailbox is    *)
(* full; the mailboxes of sessions not attached are left as they are.      *)
(***************************************************************************)
C35_DropOnlyForFullMailbox ==
    [][(chunkBus # <<>> /\ chunkBus' = Tail(chunkBus)) =>
          \A c \in Clients :
              mailbox'[c] = IF c \in clients /\ Len(mailbox[c]) < MailboxCap
                            THEN Append(mailbox[c], Head(chunkBus))
                            ELSE mailbox[c]]_vars

\* both sessions attached, the bus emptied by the dispatcher: the first still
\* has its mailbox full of an older chunk while the second holds a later one
C35_Witness ==
    /\ clients = {"c1", "c2"}
    /\ chunkBus = <<>>
    /\ Len(mailbox["c1"]) = MailboxCap
    /\ mailbox["c2"] # <<>>
    /\ Head(Head(mailbox["c2"])) > Head(Head(mailbox["c1"]))


(***************************************************************************)
(* C36: a session starts at the live head.  When it attaches its mailbox   *)
(* is empty and it has been given nothing; afterwards its mailbox grows    *)
(* only by the chunk the dispatcher takes from the bus in that very step,  *)
(* while the session is attached, and the audio it is given comes from its *)
(* mailbox: what the ring buffer holds is never handed to it.              *)
(***************************************************************************)
C36_StartsAtLiveHead ==
    [][\A c \in Clients :
          /\ (c \notin clients /\ c \in clients') =>
                 (mailbox'[c] = <<>> /\ taken'[c] = <<>> /\ body'[c] = <<>>)
          /\ mailbox'[c] # mailbox[c] =>
                 \/ (mailbox[c] # <<>> /\ mailbox'[c] = Tail(mailbox[c]))
                 \/ /\ c \in clients
                    /\ chunkBus # <<>>
                    /\ chunkBus' = Tail(chunkBus)
                    /\ mailbox'[c] = Append(mailbox[c], Head(chunkBus))
          /\ taken'[c] # taken[c] =>
                 (mailbox[c] # <<>> /\ taken'[c] = taken[c] \o Head(mailbox[c]))]_vars

\* a session that attached late has been given audio that starts after the
\* first byte of the stream, while the ring buffer holds earlier bytes
C36_Witness ==
    \E c \in Clients :
        /\ c \in clients
        /\ taken[c] # <<>>
        /\ taken[c][1] > 1
        /\ ring.n > 0
        /\ Snapshot(ring)[1] < taken[c][1]


(***************************************************************************)
(* C37: the metadata text and the time of its last update are observed     *)
(* together: no meta response reports a text that is not empty with no     *)
(* time of update.                                                         *)
(***************************************************************************)
C37_TextHasTimestamp ==
    \A c \in Clients :
        (sessPc[c] = "done" /\ status[c] = 200 /\ body[c] # <<>> /\ Reported(c) # <<>>)
            => body[c][1].data.updated_at # NULL


\* the template with each of its placeholders replaced, once, by the value
\* looked up for it
RECURSIVE Substituted(_, _, _)
Substituted(cfg, data, template) ==
    IF template = <<>> THEN <<>>
    ELSE (IF \E i \in 1..Len(Placeholders) : PlaceholderToken[Placeholders[i]] = Head(template)
          THEN extractValue(cfg, data,
                   Placeholders[CHOOSE i \in 1..Len(Placeholders) :
                                    PlaceholderToken[Placeholders[i]] = Head(template)])
          ELSE <<Head(template)>>)
         \o Substituted(cfg, data, Tail(template))

(***************************************************************************)
(* C38: what Fetch returns is the format template in which each            *)
(* placeholder is replaced by the value looked up for it (at its dotted    *)
(* path when a list of paths is configured and gives a value, else at the  *)
(* top-level key of its name, else the empty string), with exactly those   *)
(* substitutions and the configured transformations.                       *)
(***************************************************************************)
C38_ExactSubstitution ==
    fetched # NULL =>
        fetched[1].result =
            Transform(fetched[1].cfg, Substituted(fetched[1].cfg, fetched[1].data, fetched[1].cfg.Format))

\* the number of apostrophes of s
RECURSIVE Quotes(_)
Quotes(s) == IF s = <<>> THEN 0 ELSE (IF Head(s) = "'" THEN 1 ELSE 0) + Quotes(Tail(s))

(***************************************************************************)
(* C39: with strip_single_quotes enabled, what Fetch returns has the       *)
(* apostrophes of the template, which delimit StreamTitle='...';, and no   *)
(* other apostrophe.                                                       *)
(***************************************************************************)
C39_DelimitersKept ==
    (fetched # NULL /\ fetched[1].cfg.StripSingleQuotes) =>
        Quotes(fetched[1].result) = Quotes(fetched[1].cfg.Format)

====
